---- MODULE Spec2Model ----
(***************************************************************************)
(* FlatCMS content store (node-flatcms).                                   *)
(*                                                                         *)
(* State: the JSON files of one content type directory                     *)
(* (<contentDir>/<type>/<id>.json), the version directories                *)
(* (<contentDir>/<type>/<id>/versions/<versionId>.json) and the wall       *)
(* clock read by `new Date()`.  Operations: the functions of               *)
(* utils/fileHandler.js and utils/versionHandler.js, and the handlers of   *)
(* routes/content.js that compose them with utils/validator.js.            *)
(*                                                                         *)
(* A JSON object is a function from its keys to its values; every scalar   *)
(* is a string, JSON null is Null, and a key that is looked up but absent  *)
(* is Undefined.  Records of different types live in different             *)
(* directories and never interact, so one type is modelled.                *)
(***************************************************************************)
EXTENDS Integers, Sequences, FiniteSets, TLC

VARIABLES
  store,     \* the record files of the type: id -> record
  versions,  \* the version directories: id -> (versionId -> snapshot)
  clock,     \* the instant `new Date()` last returned
  last,      \* the last call and what it returned
  ops,       \* number of calls handled
  written,   \* every <<id, snapshot>> createVersion ever wrote
  inflight   \* the updateContent calls in progress: request -> its position

vars == <<store, versions, clock, last, ops, written, inflight>>

(* ------------------------------ bounds --------------------------------- *)

\* last instant the clock reaches
MaxClock == 2

\* number of calls in a run of Spec
MaxOps == 3

\* number of calls in a run of SpecHistory
MaxHistoryOps == 4

\* number of requests in a run of SpecRoutes
MaxRouteOps == 3

\* number of keys in a request body
MaxKeys == 2

\* last instant the clock reaches in a run of SpecPrune
MaxPruneClock == 11

\* number of calls in a run of SpecPrune
MaxPruneOps == 12

\* number of requests in a run of SpecOverlap
MaxOverlapOps == 4

\* last instant the clock reaches in a run of SpecCleanup
MaxCleanupClock == 12

\* number of updates in a run of SpecCleanup
MaxCleanupOps == 3

\* number of updates in flight at once in a run of SpecCleanup
MaxInFlight == 2

\* the greatest integer a text of the model denotes
MaxNumber == 30

\* number of parameters in a query string of SpecQuery
MaxParams == 2

\* number of records in a listing of SpecQuery
MaxItems == 2

\* number of records sortItems is given in SpecQuery
MaxSortItems == 3

(* --------------------------- value algebra ----------------------------- *)

Undefined == "<undefined>"

Null == "<null>"

EmptyObj == [k \in {} |-> Undefined]

\* obj[key] of JavaScript: undefined when the key is absent
Get(obj, key) == IF key \in DOMAIN obj THEN obj[key] ELSE Undefined

\* JavaScript truthiness on the values of the model ("" is the empty string)
Truthy(v) == v \notin {Undefined, Null, ""}

\* a || b
Or(a, b) == IF Truthy(a) THEN a ELSE b

\* { ...a, ...b }
Spread(a, b) ==
  [k \in (DOMAIN a) \cup (DOMAIN b) |-> IF k \in DOMAIN b THEN b[k] ELSE a[k]]

\* fs.writeJson followed by fs.readJson: JSON.stringify drops the keys
\* whose value is undefined
JsonRoundTrip(obj) ==
  [k \in {x \in DOMAIN obj : obj[x] # Undefined} |-> obj[k]]

\* new Date().toISOString() for instant n
ToISOString(n) == "2024-01-01T00:00:00." \o ToString(n) \o "Z"

\* `v${timestamp}`
VersionIdOf(n) ==
  \* timestamp.replace(/[:.]/g, '-')
  LET FsSafe == "2024-01-01T00-00-00-" \o ToString(n) \o "Z"
  IN  "v" \o FsSafe

\* the instants any clock of the model reaches
Instants ==
  0..(IF MaxCleanupClock >= MaxPruneClock /\ MaxCleanupClock >= MaxClock THEN MaxCleanupClock
      ELSE IF MaxPruneClock > MaxClock THEN MaxPruneClock ELSE MaxClock)

\* new Date(s).getTime() on the timestamps of the model; NaN is -1
GetTime(s) ==
  IF \E n \in Instants : ToISOString(n) = s
  THEN CHOOSE n \in Instants : ToISOString(n) = s
  ELSE -1

\* String.prototype.toLowerCase on the strings of the model
ToLowerCase(s) ==
  CASE s = "Slug-A" -> "slug-a"
    [] s = "Slug-B" -> "slug-b"
    [] OTHER -> s

(* ------------------------------ inputs --------------------------------- *)

\* ids a caller may supply
ExplicitIds == {"r1"}

\* identifiers uuidv4() may return
Uuids == {"u1"}

AllIds == ExplicitIds \cup Uuids

\* the timestamp a caller may put in createdAt / updatedAt / publishedAt
DataTimes == {ToISOString(0)}

\* an object built from a row of optional values: Undefined means no key
Obj(row) == [k \in {x \in DOMAIN row : row[x] # Undefined} |-> row[k]]

\* request bodies for the content store operations
StoreData ==
  LET AllStoreData ==
        { Obj(row) : row \in
            [ id          : {Undefined} \cup ExplicitIds,
              status      : {Undefined, "draft", "published"},
              createdAt   : {Undefined, Null} \cup DataTimes,
              updatedAt   : {Undefined} \cup DataTimes,
              publishedAt : {Undefined, Null} \cup DataTimes,
              title       : {Undefined, "t1"} ] }
  IN  { d \in AllStoreData : Cardinality(DOMAIN d) <= MaxKeys }

\* request bodies that leave status and the timestamps alone
HistoryData == { d \in StoreData : DOMAIN d \subseteq {"id", "title"} }

\* request bodies of the routes: an optional id and the unique field
RouteData ==
  { Obj(row) : row \in
      [ id   : {Undefined} \cup ExplicitIds,
        slug : {Undefined, Null, "slug-a", "Slug-A", "slug-b"} ] }

(* --------------------------- file system ------------------------------- *)

\* fs.pathExists(<type>/<id>.json)
PathExists(id) == id \in DOMAIN store

\* fs.remove(path) on a map from names to contents: a missing path is
\* silently ignored
Remove(dir, name) == [k \in (DOMAIN dir) \ {name} |-> dir[k]]

\* fs.writeJson(path, obj): creates or replaces the file
WriteJson(dir, name, obj) ==
  [k \in (DOMAIN dir) \cup {name} |->
     IF k = name THEN JsonRoundTrip(obj) ELSE dir[k]]

\* what a file holds between the moment fs.writeFile opened it (flag 'w'
\* truncates it) and the moment its data is written: nothing, or a prefix
\* of the JSON text, which JSON.parse rejects
Truncated == [k \in {"<truncated>"} |-> "<truncated>"]

\* fs.remove of every name outside keep
Restrict(dir, keep) == [k \in (DOMAIN dir) \cap keep |-> dir[k]]

(* ------------------------- versionHandler.js --------------------------- *)

\* cleanupOldVersions(type, id, 10) in createVersion
KeepCount == 10

\* the sort key of listVersions: new Date(a.versionedAt || 0).getTime()
VersionTime(version) == GetTime(Or(Get(version, "versionedAt"), ToISOString(0)))

\* listVersions: the snapshots of id ([] when the directory is absent);
\* the order is by VersionTime, newest first
ListVersions(vs, id) ==
  IF id \in DOMAIN vs THEN {vs[id][v] : v \in DOMAIN vs[id]} ELSE {}

\* getVersion: the file <versionId>.json, or EmptyObj (null) on ENOENT
GetVersion(vs, id, versionId) ==
  IF id \in DOMAIN vs /\ versionId \in DOMAIN vs[id]
  THEN vs[id][versionId] ELSE EmptyObj

\* cleanupOldVersions: the directories that can remain.  The snapshots
\* are sorted newest first and those after the first keepCount are
\* removed; snapshots of equal versionedAt are ordered as readdir listed
\* them, which the file system does not fix.
CleanupOldVersions(dir, keepCount) ==
  IF Cardinality(DOMAIN dir) <= keepCount
  THEN {dir}
  ELSE { Restrict(dir, keep) : keep \in
           { K \in SUBSET (DOMAIN dir) :
               /\ Cardinality(K) = keepCount
               /\ \A a \in K, b \in (DOMAIN dir) \ K :
                    VersionTime(dir[a]) >= VersionTime(dir[b]) } }

\* the snapshot object createVersion writes: token read at instant tv,
\* versionedAt read at instant tva
VersionOf(content, tv, tva) ==
  Spread(content, [versionId |-> VersionIdOf(tv), versionedAt |-> ToISOString(tva)])

\* createVersion: the version directories that can result
CreateVersion(vs, id, content, tv, tva) ==
  LET dir     == IF id \in DOMAIN vs THEN vs[id] ELSE EmptyObj
      added   == WriteJson(dir, VersionIdOf(tv), VersionOf(content, tv, tva))
  IN  { [k \in (DOMAIN vs) \cup {id} |-> IF k = id THEN d ELSE vs[k]] :
          d \in CleanupOldVersions(added, KeepCount) }

\* deleteAllVersions: removes <id>/versions when it exists
DeleteAllVersions(vs, id) == Remove(vs, id)

(* --------------------------- fileHandler.js ---------------------------- *)

\* getContent: the record, or EmptyObj (null) on ENOENT
GetContent(st, id) == IF id \in DOMAIN st THEN st[id] ELSE EmptyObj

\* ...(publishedAt && { publishedAt })
SpreadPublishedAt(obj, publishedAt) ==
  IF Truthy(publishedAt) THEN Spread(obj, [publishedAt |-> publishedAt]) ELSE obj

\* NewContent with `createdAt: now`: a createdAt in data is lost
NewContentStamped(data, id, now) ==
  LET status      == Or(Get(data, "status"), "draft")
      publishedAt == IF status = "published" /\ ~Truthy(Get(data, "publishedAt"))
                     THEN now ELSE Get(data, "publishedAt")
  IN  SpreadPublishedAt(
        Spread(data, [id        |-> id,
                      status    |-> status,
                      createdAt |-> now,
                      updatedAt |-> now]),
        publishedAt)

\* the content object createContent builds (lines 107-123)
NewContent(data, id, now) ==
  LET status      == Or(Get(data, "status"), "draft")
      publishedAt == IF status = "published" /\ ~Truthy(Get(data, "publishedAt"))
                     THEN now ELSE Get(data, "publishedAt")
  IN  SpreadPublishedAt(
        Spread(data, [id        |-> id,
                      status    |-> status,
                      createdAt |-> Or(Get(data, "createdAt"), now),
                      updatedAt |-> now]),
        publishedAt)

\* Merged with `...data` spread last: data.updatedAt overrides now
MergedDataLast(existing, data, id, now) ==
  LET newStatus == IF Get(data, "status") # Undefined
                   THEN data["status"] ELSE Get(existing, "status")
      pub0      == Get(existing, "publishedAt")
      pub1      == IF newStatus = "published" /\ ~Truthy(pub0) THEN now ELSE pub0
      pub2      == IF Get(data, "publishedAt") # Undefined
                   THEN data["publishedAt"] ELSE pub1
  IN  SpreadPublishedAt(
        Spread(Spread(existing, [id |-> id, status |-> newStatus, updatedAt |-> now]),
               data),
        pub2)

\* Merged without the `!publishedAt` test: publishedAt is stamped again
\* whenever the new status is published
MergedRestamp(existing, data, id, now) ==
  LET newStatus == IF Get(data, "status") # Undefined
                   THEN data["status"] ELSE Get(existing, "status")
      pub0      == Get(existing, "publishedAt")
      pub1      == IF newStatus = "published" THEN now ELSE pub0
      pub2      == IF Get(data, "publishedAt") # Undefined
                   THEN data["publishedAt"] ELSE pub1
  IN  SpreadPublishedAt(
        Spread(Spread(existing, data),
               [id |-> id, status |-> newStatus, updatedAt |-> now]),
        pub2)

\* the merged object updateContent builds (lines 164-186)
Merged(existing, data, id, now) ==
  LET newStatus == IF Get(data, "status") # Undefined
                   THEN data["status"] ELSE Get(existing, "status")
      pub0      == Get(existing, "publishedAt")
      pub1      == IF newStatus = "published" /\ ~Truthy(pub0) THEN now ELSE pub0
      pub2      == IF Get(data, "publishedAt") # Undefined
                   THEN data["publishedAt"] ELSE pub1
  IN  SpreadPublishedAt(
        Spread(Spread(existing, data),
               [id |-> id, status |-> newStatus, updatedAt |-> now]),
        pub2)

\* the call and its outcome, as the caller sees them: op(id, data) read
\* the clock at `at` and returned res; errors are the fields a rejection
\* names
Outcome(op, id, data, res, at) ==
  [op |-> op, id |-> id, data |-> data, res |-> res, at |-> at, errors |-> {}]

\* CreateContent without the pathExists test: an existing file is replaced
CreateContentOverwrite(data, uuid, t) ==
  LET id      == Or(Get(data, "id"), uuid)
      now     == ToISOString(t)
      content == NewContent(data, id, now)
  IN  /\ id # Undefined
      /\ clock' = t
      /\ store' = WriteJson(store, id, content)
      /\ last' = Outcome("create", id, data, "ok", now)
      /\ UNCHANGED <<versions, written>>

\* createContent(type, data); uuid is what uuidv4() would return, the
\* clock reads t
CreateContent(data, uuid, t) ==
  LET id      == Or(Get(data, "id"), uuid)
      now     == ToISOString(t)
      content == NewContent(data, id, now)
  IN  /\ id # Undefined
      /\ clock' = t
      /\ IF PathExists(id)
         THEN /\ last' = Outcome("create", id, data, "Conflict", now)
              /\ UNCHANGED <<store, versions, written>>
         ELSE /\ store' = WriteJson(store, id, content)
              /\ last' = Outcome("create", id, data, "ok", now)
              /\ UNCHANGED <<versions, written>>

\* WriteUpdate without the try and catch around createVersion: its
\* failure ends the update
WriteUpdateAborts(op, id, data, tv, tva, t, snapshotFails) ==
  LET existing == store[id]
      now      == ToISOString(t)
  IN  IF snapshotFails
      THEN /\ last' = Outcome(op, id, data, "Error", Undefined)
           /\ UNCHANGED <<store, versions, written, clock>>
      ELSE /\ versions' \in CreateVersion(versions, id, existing, tv, tva)
           /\ written' = written \cup {<<id, VersionOf(existing, tv, tva)>>}
           /\ store' = WriteJson(store, id, Merged(existing, data, id, now))
           /\ clock' = t
           /\ last' = Outcome(op, id, data, "ok", now)

\* lines 151-189 of updateContent, also reached from the restore route:
\* createVersion reads the clock at tv and tva, updateContent at t;
\* snapshotFails: createVersion throws, before it writes the snapshot or
\* after it, in cleanupOldVersions (the error is caught and logged)
WriteUpdate(op, id, data, tv, tva, t, snapshotFails) ==
  LET existing == store[id]
      now      == ToISOString(t)
      dir      == IF id \in DOMAIN versions THEN versions[id] ELSE EmptyObj
      unpruned == WriteJson(dir, VersionIdOf(tv), VersionOf(existing, tv, tva))
  IN  /\ IF snapshotFails
         THEN \/ UNCHANGED <<versions, written>>
              \/ /\ versions' = [k \in (DOMAIN versions) \cup {id} |->
                                 IF k = id THEN unpruned ELSE versions[k]]
                 /\ written' = written \cup {<<id, VersionOf(existing, tv, tva)>>}
         ELSE /\ versions' \in CreateVersion(versions, id, existing, tv, tva)
              /\ written' = written \cup {<<id, VersionOf(existing, tv, tva)>>}
      /\ store' = WriteJson(store, id, Merged(existing, data, id, now))
      /\ clock' = t
      /\ last' = Outcome(op, id, data, "ok", now)

\* UpdateContent without the pathExists test: a missing record is written
UpdateContentUpsert(id, data, tv, tva, t, snapshotFails) ==
  IF ~PathExists(id)
  THEN /\ store' = WriteJson(store, id, Merged(EmptyObj, data, id, ToISOString(t)))
       /\ clock' = t
       /\ last' = Outcome("update", id, data, "ok", ToISOString(t))
       /\ UNCHANGED <<versions, written>>
  ELSE WriteUpdate("update", id, data, tv, tva, t, snapshotFails)

\* updateContent(type, id, data)
UpdateContent(id, data, tv, tva, t, snapshotFails) ==
  IF ~PathExists(id)
  THEN /\ last' = Outcome("update", id, data, "null", Undefined)
       /\ UNCHANGED <<store, versions, written, clock>>
  ELSE WriteUpdate("update", id, data, tv, tva, t, snapshotFails)

\* DeleteContent without the call of deleteAllVersions
DeleteContentKeepVersions(id) ==
  /\ store' = Remove(store, id)
  /\ last' = Outcome("delete", id, EmptyObj, "true", Undefined)
  /\ UNCHANGED <<clock, written, versions>>

\* deleteContent(type, id): fs.remove never raises ENOENT, so the ENOENT
\* branch of the catch is never taken
DeleteContent(id) ==
  /\ store' = Remove(store, id)
  /\ versions' = DeleteAllVersions(versions, id)
  /\ last' = Outcome("delete", id, EmptyObj, "true", Undefined)
  /\ UNCHANGED <<clock, written>>

(* --------------------------- queryParser.js ---------------------------- *)

\* (lines 258-475 of validator.js are utils/queryParser.js, which
\* fileHandler.js requires)

\* A JSON value with its JavaScript type: t is what typeof, Array.isArray
\* and `=== null` tell apart, s is String(v) of a scalar, kids are the
\* entries of an object or the elements of an array, in order.

Entry(k, v) == [k |-> k, v |-> v]

JString(s) == [t |-> "string", s |-> s, kids |-> <<>>]

JNumber(n) == [t |-> "number", s |-> ToString(n), kids |-> <<>>]

JBoolean(b) == [t |-> "boolean", s |-> IF b THEN "true" ELSE "false", kids |-> <<>>]

JNull == [t |-> "null", s |-> "null", kids |-> <<>>]

JUndefined == [t |-> "undefined", s |-> "undefined", kids |-> <<>>]

JObject(entries) == [t |-> "object", s |-> "[object Object]", kids |-> entries]

JArray(elements) ==
  [t |-> "array", s |-> "",
   kids |-> [i \in 1..Len(elements) |-> Entry(ToString(i - 1), elements[i])]]

\* v[key]
Prop(v, key) ==
  LET hits == { i \in DOMAIN v.kids : v.kids[i].k = key }
  IN  IF hits = {} THEN JUndefined ELSE v.kids[CHOOSE i \in hits : TRUE].v

\* !!v
JTruthy(v) ==
  CASE v.t \in {"undefined", "null"} -> FALSE
    [] v.t = "boolean" -> v.s = "true"
    [] v.t = "number"  -> v.s # "0"
    [] v.t = "string"  -> v.s # ""
    [] OTHER           -> TRUE

\* a JavaScript number: an integer or NaN
Num(n) == [nan |-> FALSE, n |-> n]

NaN == [nan |-> TRUE, n |-> 0]

\* the integers whose decimal text the model reads
Numerals == (0 - MaxNumber)..MaxNumber

\* the texts that are a part of a longer text of the model
Atoms == {"5", "15", "25", "true", "a", "b"}

\* String.prototype.trim on the texts of the model
Trim(s) == IF \E a \in Atoms : s = " " \o a THEN CHOOSE a \in Atoms : s = " " \o a ELSE s

RECURSIVE StringOf(_)
RECURSIVE Join(_, _)

\* String(v): an array is its elements joined by commas
StringOf(v) == IF v.t = "array" THEN Join(v.kids, 1) ELSE v.s

Join(kids, i) ==
  IF i > Len(kids)
  THEN ""
  ELSE (IF kids[i].v.t \in {"null", "undefined"} THEN "" ELSE StringOf(kids[i].v))
         \o (IF i < Len(kids) THEN "," ELSE "")
         \o Join(kids, i + 1)

\* Number(v): of a text, the integer it denotes, if any
ToNumber(v) ==
  LET s == Trim(StringOf(v))
  IN  CASE v.t = "undefined" -> NaN
        [] v.t = "null"      -> Num(0)
        [] v.t = "boolean"   -> IF v.s = "true" THEN Num(1) ELSE Num(0)
        [] v.t = "object"    -> NaN
        [] OTHER             -> IF s = "" THEN Num(0)
                                ELSE IF \E n \in Numerals : ToString(n) = s
                                THEN Num(CHOOSE n \in Numerals : ToString(n) = s)
                                ELSE NaN

\* parseInt(s, 10): the integer a text starts with
ParseInt(s) ==
  LET tails == {"", "x", ".5"}
      hits  == { n \in Numerals : \E x \in tails : s = ToString(n) \o x }
  IN  IF hits = {} THEN NaN ELSE Num(CHOOSE n \in hits : TRUE)

\* the characters of the texts of the model that have more than one
Chars(s) ==
  CASE s = ""          -> <<>>
    [] s = "15"        -> <<"1", "5">>
    [] s = "25"        -> <<"2", "5">>
    [] s = "true"      -> <<"t", "r", "u", "e">>
    [] s = "false"     -> <<"f", "a", "l", "s", "e">>
    [] s = "null"      -> <<"n", "u", "l", "l">>
    [] s = "undefined" -> <<"u", "n", "d", "e", "f", "i", "n", "e", "d">>
    [] s = "ab"        -> <<"a", "b">>
    [] s = "Ab"        -> <<"A", "b">>
    [] s = "AB"        -> <<"A", "B">>
    [] s = "ba"        -> <<"b", "a">>
    [] s = "xy"        -> <<"x", "y">>
    [] OTHER           -> <<s>>

\* s.toLowerCase(), as characters
LowerChars(s) ==
  LET lower(c) == CASE c = "A" -> "a"
                    [] c = "B" -> "b"
                    [] OTHER   -> c
  IN  [i \in DOMAIN Chars(s) |-> lower(Chars(s)[i])]

\* hay.includes(needle) on characters
Includes(hay, needle) ==
  \E i \in 0..(Len(hay) - Len(needle)) : SubSeq(hay, i + 1, i + Len(needle)) = needle

RECURSIVE CharsLess(_, _, _)

\* a < b on two strings: by code units (the characters of the model in
\* code-unit order), a proper prefix first
CharsLess(a, b, i) ==
  LET alphabet ==
        <<" ", ",", "-", ".", "0", "1", "2", "3", "4", "5", "6", "7", "8", "9",
          "A", "B", "a", "b", "d", "e", "f", "i", "l", "n", "r", "s", "t", "u", "x", "y">>
      code(c) == CHOOSE k \in DOMAIN alphabet : alphabet[k] = c
  IN  IF i > Len(b) THEN FALSE
      ELSE IF i > Len(a) THEN TRUE
      ELSE IF code(a[i]) # code(b[i]) THEN code(a[i]) < code(b[i])
      ELSE CharsLess(a, b, i + 1)

\* a < b of JavaScript on the values of the model
JsLess(a, b) ==
  IF a.t = "string" /\ b.t = "string"
  THEN CharsLess(Chars(a.s), Chars(b.s), 1)
  ELSE /\ ~ToNumber(a).nan
       /\ ~ToNumber(b).nan
       /\ ToNumber(a).n < ToNumber(b).n

\* value == filterValue, filterValue a string
LooseEquals(value, filterValue) ==
  CASE value.t = "string"                -> value.s = filterValue.s
    [] value.t \in {"null", "undefined"} -> FALSE
    [] value.t \in {"number", "boolean"} ->
         /\ ~ToNumber(filterValue).nan
         /\ ToNumber(value).n = ToNumber(filterValue).n
    [] OTHER                             -> StringOf(value) = filterValue.s

\* the field names of the model
FieldNames == {"price", "flag", "meta.rank", "title"}

\* key.match(/^(.+)__(gt|lt|gte|lte|ne|in|contains)$/): <<field, operator>>,
\* or <<>> for no match
OperatorMatch(key) ==
  LET operators == {"gt", "lt", "gte", "lte", "ne", "in", "contains"}
      hits == { m \in FieldNames \X operators : key = m[1] \o "__" \o m[2] }
  IN  IF hits = {} THEN <<>> ELSE CHOOSE m \in hits : TRUE

\* options.sort of a query without sort (null)
NoSort == [field |-> "", direction |-> ""]

\* the options parseQuery starts from (lines 268-275); filters maps a
\* field to its conditions, which map an operator to its filter value
DefaultOptions ==
  [filters |-> EmptyObj, search |-> JNull, sort |-> NoSort,
   limit |-> JNull, offset |-> JNumber(0)]

\* the filter value parseQuery makes of the text of a parameter
FilterValueOf(operator, text) ==
  LET parts == Atoms \cup {" " \o x : x \in Atoms}
      \* value.split(',') on the texts of the model
      split == IF \E a, b \in parts : text = a \o "," \o b
               THEN CHOOSE pair \in parts \X parts : text = pair[1] \o "," \o pair[2]
               ELSE <<text>>
  IN  IF operator = "in"
      THEN JArray([i \in DOMAIN split |-> JString(Trim(split[i]))])
      ELSE JString(text)

\* one turn of the loop of parseQuery (lines 277-328)
ParseEntry(options, key, value) ==
  CASE key = "limit" ->
         [options EXCEPT !.limit =
            IF ParseInt(value).nan \/ ParseInt(value).n < 1
            THEN JNull ELSE JNumber(ParseInt(value).n)]
    [] key = "offset" ->
         [options EXCEPT !.offset =
            IF ParseInt(value).nan \/ ParseInt(value).n < 0
            THEN JNumber(0) ELSE JNumber(ParseInt(value).n)]
    [] key = "sort" ->
         [options EXCEPT !.sort =
            IF \E f \in FieldNames : value = "-" \o f
            THEN [field |-> CHOOSE f \in FieldNames : value = "-" \o f,
                  direction |-> "desc"]
            ELSE [field |-> value, direction |-> "asc"]]
    [] key = "search" -> [options EXCEPT !.search = JString(value)]
    [] OTHER ->
         IF OperatorMatch(key) # <<>>
         THEN LET field      == OperatorMatch(key)[1]
                  operator   == OperatorMatch(key)[2]
                  conditions == IF field \in DOMAIN options.filters
                                THEN options.filters[field] ELSE EmptyObj
                  filterValue == FilterValueOf(operator, value)
              IN  [options EXCEPT !.filters =
                     Spread(options.filters,
                            [f \in {field} |->
                               Spread(conditions, [o \in {operator} |-> filterValue])])]
         ELSE [options EXCEPT !.filters =
                 Spread(options.filters,
                        [f \in {key} |-> [o \in {"eq"} |-> JString(value)]])]

RECURSIVE ParseFrom(_, _, _)

ParseFrom(query, i, options) ==
  IF i > Len(query) THEN options
  ELSE ParseFrom(query, i + 1, ParseEntry(options, query[i].k, query[i].v))

\* parseQuery(query): query is Object.entries(req.query)
ParseQuery(query) == ParseFrom(query, 1, DefaultOptions)

RECURSIVE NestedFrom(_, _, _)

NestedFrom(current, keys, i) ==
  IF i > Len(keys) THEN current
  ELSE NestedFrom(IF JTruthy(current) /\ Prop(current, keys[i]) # JUndefined
                  THEN Prop(current, keys[i]) ELSE JUndefined,
                  keys, i + 1)

\* getNestedValue(obj, path)
GetNestedValue(obj, path) ==
  LET keys == CASE path = "meta.rank" -> <<"meta", "rank">>   \* path.split('.')
                [] OTHER              -> <<path>>
  IN  NestedFrom(obj, keys, 1)

\* matchesCondition(value, operator, filterValue)
MatchesCondition(value, operator, filterValue) ==
  CASE operator = "eq"  -> LooseEquals(value, filterValue)
    [] operator = "ne"  -> ~LooseEquals(value, filterValue)
    [] operator = "gt"  -> ~ToNumber(value).nan /\ ~ToNumber(filterValue).nan
                             /\ ToNumber(value).n > ToNumber(filterValue).n
    [] operator = "gte" -> ~ToNumber(value).nan /\ ~ToNumber(filterValue).nan
                             /\ ToNumber(value).n >= ToNumber(filterValue).n
    [] operator = "lt"  -> ~ToNumber(value).nan /\ ~ToNumber(filterValue).nan
                             /\ ToNumber(value).n < ToNumber(filterValue).n
    [] operator = "lte" -> ~ToNumber(value).nan /\ ~ToNumber(filterValue).nan
                             /\ ToNumber(value).n <= ToNumber(filterValue).n
    [] operator = "in"  ->
         IF value.t = "array"
         THEN \E i \in DOMAIN value.kids, j \in DOMAIN filterValue.kids :
                filterValue.kids[j].v = JString(StringOf(value.kids[i].v))
         ELSE \E j \in DOMAIN filterValue.kids :
                filterValue.kids[j].v = JString(StringOf(value))
    [] operator = "contains" ->
         IF value.t = "array"
         THEN \E i \in DOMAIN value.kids :
                Includes(LowerChars(StringOf(value.kids[i].v)), LowerChars(StringOf(filterValue)))
         ELSE Includes(LowerChars(StringOf(value)), LowerChars(StringOf(filterValue)))
    [] OTHER -> TRUE

\* matchesFilters(item, filters)
MatchesFilters(item, filters) ==
  \A field \in DOMAIN filters :
    \A operator \in DOMAIN filters[field] :
      MatchesCondition(GetNestedValue(item, field), operator, filters[field][operator])

RECURSIVE SearchInObject(_, _)

\* searchInObject(obj) of matchesSearch, for the lower-cased term
SearchInObject(obj, searchLower) ==
  \E i \in DOMAIN obj.kids :
    LET value == obj.kids[i].v
    IN  \/ value.t = "string" /\ Includes(LowerChars(value.s), searchLower)
        \/ value.t = "object" /\ SearchInObject(value, searchLower)
        \/ /\ value.t = "array"
           /\ \E j \in DOMAIN value.kids :
                /\ value.kids[j].v.t = "string"
                /\ Includes(LowerChars(value.kids[j].v.s), searchLower)

\* matchesSearch(item, searchTerm)
MatchesSearch(item, searchTerm) ==
  IF searchTerm = "" THEN TRUE ELSE SearchInObject(item, LowerChars(searchTerm))

\* CompareItems with `return 1` and `return -1` for a missing value,
\* whatever the direction
CompareItemsMissingLast(a, b, field, isDesc) ==
  LET aValue == GetNestedValue(a, field)
      bValue == GetNestedValue(b, field)
  IN  IF aValue.t \in {"undefined", "null"} THEN 1
      ELSE IF bValue.t \in {"undefined", "null"} THEN -1
      ELSE IF JsLess(aValue, bValue) THEN (IF isDesc THEN 1 ELSE -1)
      ELSE IF JsLess(bValue, aValue) THEN (IF isDesc THEN -1 ELSE 1)
      ELSE 0

\* the comparator of sortItems (lines 443-455)
CompareItems(a, b, field, isDesc) ==
  LET aValue == GetNestedValue(a, field)
      bValue == GetNestedValue(b, field)
  IN  IF aValue.t \in {"undefined", "null"} THEN (IF isDesc THEN -1 ELSE 1)
      ELSE IF bValue.t \in {"undefined", "null"} THEN (IF isDesc THEN 1 ELSE -1)
      ELSE IF JsLess(aValue, bValue) THEN (IF isDesc THEN 1 ELSE -1)
      ELSE IF JsLess(bValue, aValue) THEN (IF isDesc THEN -1 ELSE 1)
      ELSE 0

\* items.sort(compare): the results Array.prototype.sort can give.  It is
\* stable, and it never puts a before b when compare says b before a and
\* a after b; where compare contradicts itself (it does for two missing
\* values) the order is the implementation's.  compare[i][j] is what the
\* comparator returns for items[i] and items[j]; p[i] is the old place of
\* the element at place i.
SortBy(items, compare) ==
  LET n      == Len(items)
      orders == { p \in [1..n -> 1..n] : \A i, j \in 1..n : i # j => p[i] # p[j] }
      agrees(p) ==
        \A i, j \in 1..n :
          i < j =>
            LET a == p[i]
                b == p[j]
            IN  /\ ~(compare[a][b] > 0 /\ compare[b][a] < 0)
                /\ (compare[a][b] = 0 /\ compare[b][a] = 0) => a < b
      good == { p \in orders : agrees(p) }
  IN  { [i \in 1..n |-> items[p[i]]] :
          p \in (IF good = {} THEN orders ELSE good) }

\* sortItems(items, sortConfig): the lists it can return
SortItems(items, sortConfig) ==
  IF sortConfig = NoSort \/ sortConfig.field = ""
  THEN {items}
  ELSE LET compare == [i \in DOMAIN items |-> [j \in DOMAIN items |->
                          CompareItems(items[i], items[j], sortConfig.field,
                                       sortConfig.direction = "desc")]]
       IN  SortBy(items, compare)

\* Math.trunc of a number for an index: NaN is 0
ToInteger(x) == IF x.nan THEN 0 ELSE x.n

\* a + b on numbers
Plus(a, b) == IF a.nan \/ b.nan THEN NaN ELSE Num(a.n + b.n)

\* items.slice(start, end): an index below 0 counts from the end, and
\* every index is kept within the list
Slice(items, start, end) ==
  LET len == Len(items)
      clamp(k) == IF k < 0 THEN (IF len + k < 0 THEN 0 ELSE len + k)
                  ELSE IF k > len THEN len ELSE k
  IN  SubSeq(items, clamp(start) + 1, clamp(end))

\* paginateItems(items, limit, offset)
PaginateItems(items, limit, offset) ==
  IF limit = JNull
  THEN Slice(items, ToInteger(ToNumber(offset)), Len(items))
  ELSE Slice(items, ToInteger(ToNumber(offset)),
             ToInteger(Plus(ToNumber(offset), ToNumber(limit))))

(* ------------------- fileHandler.js: the listings ---------------------- *)

\* fs.readdir and fs.readJson of each file (lines 31-46): the records of
\* the directory in the order readdir lists them, which is not fixed
ReadDir(st) ==
  { [i \in 1..Cardinality(DOMAIN st) |-> st[f[i]]] :
      f \in { g \in [1..Cardinality(DOMAIN st) -> DOMAIN st] :
                \A i, j \in 1..Cardinality(DOMAIN st) : i # j => g[i] # g[j] } }

\* options[key], undefined when the key is absent
Opt(options, key) == IF key \in DOMAIN options THEN options[key] ELSE JUndefined

\* a || b on JSON values
JOr(a, b) == IF JTruthy(a) THEN a ELSE b

\* listContent(type, options) over the parsed files contents, in readdir
\* order: the results it can return (lines 48-79)
ListContent(contents, options) ==
  LET byFilters(item) == MatchesFilters(item, options["filters"])
      bySearch(item)  == MatchesSearch(item, options["search"].s)
      filtered1 == IF "filters" \in DOMAIN options /\ DOMAIN options["filters"] # {}
                   THEN SelectSeq(contents, byFilters) ELSE contents
      filtered2 == IF JTruthy(Opt(options, "search"))
                   THEN SelectSeq(filtered1, bySearch) ELSE filtered1
      sorted    == IF "sort" \in DOMAIN options /\ options["sort"] # NoSort
                   THEN SortItems(filtered2, options["sort"]) ELSE {filtered2}
      offset    == JOr(Opt(options, "offset"), JNumber(0))
      limit     == Opt(options, "limit")
  IN  { [data |-> PaginateItems(filtered, limit, offset),
         pagination |->
           [total   |-> Len(filtered),
            limit   |-> limit,
            offset  |-> offset,
            hasMore |-> IF JTruthy(limit)
                        THEN /\ ~Plus(ToNumber(offset), ToNumber(limit)).nan
                             /\ Plus(ToNumber(offset), ToNumber(limit)).n < Len(filtered)
                        ELSE FALSE]] :
        filtered \in sorted }

\* the relation fields (line 261), in the order they are walked
RelationFields == <<"related", "relations", "references", "linked">>

\* related.find(r => r.item.id === item.id): score += 1, or a push
Bump(related, item) ==
  LET hits == { i \in DOMAIN related : Prop(related[i].item, "id") = Prop(item, "id") }
      first == CHOOSE i \in hits : \A j \in hits : i <= j
  IN  IF hits = {}
      THEN Append(related, [item |-> item, score |-> 1])
      ELSE [related EXCEPT ![first].score = @ + 1]

RECURSIVE TagPass(_, _, _, _, _)

\* the loop of lines 235-242 from item i on
TagPass(items, i, content, id, related) ==
  IF i > Len(items) THEN related
  ELSE LET item == items[i]
           tags == Prop(item, "tags")
           \* content.tags.filter(tag => item.tags.includes(tag)).length
           n    == Cardinality({ k \in DOMAIN Prop(content, "tags").kids :
                                   \E j \in DOMAIN tags.kids :
                                     tags.kids[j].v = Prop(content, "tags").kids[k].v })
       IN  TagPass(items, i + 1, content, id,
                   IF Prop(item, "id") # JString(id) /\ JTruthy(tags) /\ tags.t = "array" /\ n > 0
                   THEN Append(related, [item |-> item, score |-> n])
                   ELSE related)

RECURSIVE CategoryPass(_, _, _, _, _)

\* the loop of lines 247-257 from item i on
CategoryPass(items, i, content, id, related) ==
  IF i > Len(items) THEN related
  ELSE CategoryPass(items, i + 1, content, id,
                    IF /\ Prop(items[i], "id") # JString(id)
                       /\ Prop(items[i], "category") = Prop(content, "category")
                    THEN Bump(related, items[i]) ELSE related)

RECURSIVE RelationPass(_, _, _, _, _)

\* the loops of lines 262-285 from field f, item i on
RelationPass(items, f, i, id, related) ==
  IF f > Len(RelationFields) THEN related
  ELSE IF i > Len(items) THEN RelationPass(items, f + 1, 1, id, related)
  ELSE LET value == Prop(items[i], RelationFields[f])
           \* the references item[field] holds (lines 264-271)
           references ==
             CASE value.t = "array"  -> [k \in DOMAIN value.kids |-> value.kids[k].v]
               [] value.t = "string" -> <<value>>
               [] value.t = "object" /\ JTruthy(Prop(value, "id")) -> <<Prop(value, "id")>>
               [] OTHER              -> <<>>
           \* references.includes(id) || references.some(...) (lines 273-275)
           refersTo ==
             \E k \in DOMAIN references :
               \/ references[k] = JString(id)
               \/ /\ references[k].t \in {"object", "array"}
                  /\ Prop(references[k], "id") = JString(id)
       IN  RelationPass(items, f, i + 1, id,
                        IF /\ Prop(items[i], "id") # JString(id)
                           /\ JTruthy(value)
                           /\ refersTo
                        THEN Bump(related, items[i]) ELSE related)

\* what getRelatedContent returns for a missing record (line 227)
NoRelated ==
  [data |-> <<>>,
   pagination |-> [total |-> 0, limit |-> JNull, offset |-> JNumber(0), hasMore |-> FALSE]]

\* getRelatedContent(type, id, options) over the parsed files contents:
\* the results it can return
GetRelatedContent(contents, id, options) ==
  LET found == { i \in DOMAIN contents : Prop(contents[i], "id") = JString(id) }
      content == contents[CHOOSE i \in found : TRUE]
      tags == Prop(content, "tags")
      \* lines 231-286: the scored records, before the sort
      scored(items) ==
        LET byTags == IF JTruthy(tags) /\ tags.t = "array" /\ Len(tags.kids) > 0
                      THEN TagPass(items, 1, content, id, <<>>) ELSE <<>>
            byCat  == IF JTruthy(Prop(content, "category"))
                      THEN CategoryPass(items, 1, content, id, byTags) ELSE byTags
        IN  RelationPass(items, 1, 1, id, byCat)
      \* related.sort((a, b) => b.score - a.score)
      sorted(list) ==
        SortBy(list, [i \in DOMAIN list |-> [j \in DOMAIN list |->
                        list[j].score - list[i].score]])
      limit  == JOr(Opt(options, "limit"), JNull)
      offset == JOr(Opt(options, "offset"), JNumber(0))
  IN  IF found = {}
      THEN {NoRelated}
      ELSE { LET relatedItems == [i \in DOMAIN related |-> related[i].item]
             IN  [data |-> PaginateItems(relatedItems, limit, offset),
                  pagination |->
                    [total   |-> Len(relatedItems),
                     limit   |-> limit,
                     offset  |-> offset,
                     hasMore |-> IF JTruthy(limit)
                                 THEN /\ ~Plus(ToNumber(offset), ToNumber(limit)).nan
                                      /\ Plus(ToNumber(offset), ToNumber(limit)).n
                                           < Len(relatedItems)
                                 ELSE FALSE]] :
               related \in UNION { sorted(scored(allContent.data)) :
                                     allContent \in ListContent(contents, EmptyObj) } }

(* ---------------------------- validator.js ---------------------------- *)

\* getUniqueFields: the properties the schema marks `"unique": true`
\* (the page type of the README)
UniqueFields == {"slug"}

\* typeof v === 'string' on the values of the model
IsString(v) == v \notin {Undefined, Null}

\* the comparison of validateUniqueness (lines 175-179)
SameValue(fieldValue, itemValue) ==
  IF IsString(fieldValue) /\ IsString(itemValue)
  THEN ToLowerCase(fieldValue) = ToLowerCase(itemValue)
  ELSE fieldValue = itemValue

\* validateUniqueness(type, data, excludeId): the fields of its errors.
\* The records it compares with are listContent(type, {}).data (line 157).
ValidateUniqueness(st, data, excludeId) ==
  { f \in UniqueFields :
      /\ Get(data, f) \notin {Undefined, Null}
      /\ \E contents \in ReadDir(st) :
           \E allContent \in ListContent(contents, EmptyObj) :
             \E i \in DOMAIN allContent.data :
               /\ ~(Truthy(excludeId) /\ Get(allContent.data[i], "id") = excludeId)
               /\ SameValue(Get(data, f), Get(allContent.data[i], f)) }

(* -------------------------- routes/content.js -------------------------- *)

\* a 4xx response that names fields
Rejected(op, id, data, res, fields) ==
  [Outcome(op, id, data, res, Undefined) EXCEPT !.errors = fields]

\* POST /:type; valid is the verdict of validateContent on the body
PostRoute(data, uuid, t, valid) ==
  IF ~valid
  THEN /\ last' = Rejected("create", Get(data, "id"), data, "ValidationFailure", {})
       /\ UNCHANGED <<store, versions, written, clock>>
  ELSE IF ValidateUniqueness(store, data, Null) # {}
  THEN /\ last' = Rejected("create", Get(data, "id"), data, "Conflict",
                           ValidateUniqueness(store, data, Null))
       /\ UNCHANGED <<store, versions, written, clock>>
  ELSE CreateContent(data, uuid, t)

\* PUT /:type/:id; valid is the verdict of validateContent on the merge
PutRoute(id, data, tv, tva, t, valid) ==
  IF GetContent(store, id) = EmptyObj
  THEN /\ last' = Outcome("update", id, data, "null", Undefined)
       /\ UNCHANGED <<store, versions, written, clock>>
  ELSE LET mergedData == Spread(Spread(store[id], data), [id |-> id])
       IN  IF ~valid
           THEN /\ last' = Rejected("update", id, data, "ValidationFailure", {})
                /\ UNCHANGED <<store, versions, written, clock>>
           ELSE IF ValidateUniqueness(store, mergedData, id) # {}
           THEN /\ last' = Rejected("update", id, data, "Conflict",
                                    ValidateUniqueness(store, mergedData, id))
                /\ UNCHANGED <<store, versions, written, clock>>
           ELSE UpdateContent(id, data, tv, tva, t, FALSE)

\* POST /:type/:id/restore/:versionId
Restore(id, versionId, tv, tva, t, snapshotFails) ==
  \* const { versionId: _, versionedAt: __, ...restoredData } = version
  LET RestoredData(version) ==
        [k \in (DOMAIN version) \ {"versionId", "versionedAt"} |-> version[k]]
  IN  IF GetContent(store, id) = EmptyObj \/ GetVersion(versions, id, versionId) = EmptyObj
      THEN /\ last' = Outcome("restore", id, EmptyObj, "404", Undefined)
           /\ UNCHANGED <<store, versions, written, clock>>
      ELSE WriteUpdate("restore", id, RestoredData(GetVersion(versions, id, versionId)),
                       tv, tva, t, snapshotFails)

(* -------------------- index.js, middleware/auth.js --------------------- *)

\* A request under /api: method, path (the segments of req.path, which is
\* relative to /api), the Authorization and X-API-Key headers (Undefined
\* when absent), and config.publicGetEnabled.

\* config.apiKey
ApiKey == "K"

\* authMiddleware(req, res, next): TRUE when it calls next()
AuthMiddleware(req) ==
  LET keys       == {"", ApiKey, "bad"}
      authHeader == req.authorization
      \* authHeader.startsWith('Bearer ') and authHeader.substring(7)
      bearer     == IF \E k \in keys : authHeader = "Bearer " \o k
                    THEN CHOOSE k \in keys : authHeader = "Bearer " \o k
                    ELSE Null
      apiKey     == IF Truthy(bearer) THEN bearer ELSE req.xApiKey
  IN  Truthy(apiKey) /\ apiKey = ApiKey

\* the router and route a request is dispatched to once it is let
\* through (routes/content.js, routes/media.js, routes/schema.js), or
\* "404"
RouteOf(method, path) ==
  LET n    == Len(path)
      rest == IF n = 0 THEN <<>> ELSE SubSeq(path, 2, n)
      m    == Len(rest)
  IN  CASE n = 0 -> "404"
        [] path[1] = "content" ->
             (CASE method = "GET" /\ m = 1 -> "content.list"
                [] method = "GET" /\ m = 2 -> "content.get"
                [] method = "POST" /\ m = 1 -> "content.create"
                [] method = "PUT" /\ m = 2 -> "content.update"
                [] method = "DELETE" /\ m = 2 -> "content.delete"
                [] method = "GET" /\ m = 3 /\ rest[3] = "versions" -> "content.versions"
                [] method = "GET" /\ m = 4 /\ rest[3] = "versions" -> "content.version"
                [] method = "POST" /\ m = 4 /\ rest[3] = "restore" -> "content.restore"
                [] method = "GET" /\ m = 3 /\ rest[3] = "related" -> "content.related"
                [] OTHER -> "404")
        [] path[1] = "media" ->
             (CASE method = "POST" /\ m = 1 /\ rest[1] = "upload" -> "media.upload"
                [] method = "GET" /\ m = 0 -> "media.list"
                [] method = "GET" /\ m = 2 -> "media.get"
                [] method = "GET" /\ m = 3 /\ rest[3] = "file" -> "media.file"
                [] method = "DELETE" /\ m = 2 -> "media.delete"
                [] OTHER -> "404")
        [] path[1] = "schema" ->
             (CASE method = "GET" /\ m = 0 -> "schema.get"
                [] OTHER -> "404")
        [] OTHER -> "404"

\* app.use('/api', ...) (lines 15-31) and the routers mounted after it:
\* "401" when authMiddleware answers, else where the request arrives
ApiGate(req) ==
  LET path == req.path
      \* req.path.startsWith('/media/') && req.path.endsWith('/file')
      mediaFile == /\ Len(path) >= 2
                   /\ path[1] = "media"
                   /\ path[Len(path)] = "file"
  IN  IF mediaFile THEN RouteOf(req.method, path)
      ELSE IF req.publicGetEnabled /\ req.method = "GET" THEN RouteOf(req.method, path)
      ELSE IF AuthMiddleware(req) THEN RouteOf(req.method, path)
      ELSE "401"

(* --------------------------- specification ----------------------------- *)

Init ==
  /\ store = EmptyObj
  /\ versions = EmptyObj
  /\ written = {}
  /\ clock = 0
  /\ last = Outcome("init", Undefined, EmptyObj, "ok", Undefined)
  /\ ops = 0
  /\ inflight = EmptyObj

\* the clock readings of one call: never backwards
Reads == { r \in [tv : clock..MaxClock, tva : clock..MaxClock, t : clock..MaxClock] :
             r.tv <= r.tva /\ r.tva <= r.t }

\* what uuidv4() can return: an identifier never used before
FreshUuids == Uuids \ ((DOMAIN store) \cup (DOMAIN versions) \cup {w[1] : w \in written})

\* one more call is handled, from its first statement to its return
Call(max) == ops < max /\ ops' = ops + 1 /\ UNCHANGED inflight

\* createContent called with a body of bodies
Create(bodies) ==
  \E data \in bodies, t \in clock..MaxClock :
    \E uuid \in (IF FreshUuids = {} THEN {Undefined} ELSE FreshUuids) :
      CreateContent(data, uuid, t)

\* updateContent called with a body of bodies
Update(bodies) ==
  \E id \in AllIds, data \in bodies, r \in Reads :
    UpdateContent(id, data, r.tv, r.tva, r.t, FALSE)

Delete == \E id \in AllIds : DeleteContent(id)

RestoreVersion ==
  \E id \in AllIds, v \in { VersionIdOf(n) : n \in 0..MaxClock }, r \in Reads :
    Restore(id, v, r.tv, r.tva, r.t, FALSE)

\* The content store called directly, with any body of StoreData.

DoCreate == Call(MaxOps) /\ Create(StoreData)

DoUpdate == Call(MaxOps) /\ Update(StoreData)

DoDelete == Call(MaxOps) /\ Delete

DoRestore == Call(MaxOps) /\ RestoreVersion

Next == DoCreate \/ DoUpdate \/ DoDelete \/ DoRestore

Spec == Init /\ [][Next]_vars

\* Longer runs of the content store with the bodies of HistoryData.

HistCreate == Call(MaxHistoryOps) /\ Create(HistoryData)

\* an update whose snapshot may fail
HistUpdate ==
  /\ Call(MaxHistoryOps)
  /\ \E id \in AllIds, data \in HistoryData, r \in Reads, snapshotFails \in BOOLEAN :
       UpdateContent(id, data, r.tv, r.tva, r.t, snapshotFails)

HistDelete == Call(MaxHistoryOps) /\ Delete

HistRestore == Call(MaxHistoryOps) /\ RestoreVersion

NextHistory == HistCreate \/ HistUpdate \/ HistDelete \/ HistRestore

SpecHistory == Init /\ [][NextHistory]_vars

\* The requests of routes/content.js, each handled before the next starts.

RoutePost ==
  /\ Call(MaxRouteOps)
  /\ \E data \in RouteData, t \in clock..MaxClock, valid \in BOOLEAN :
       \E uuid \in (IF FreshUuids = {} THEN {Undefined} ELSE FreshUuids) :
         /\ Or(Get(data, "id"), uuid) # Undefined
         /\ PostRoute(data, uuid, t, valid)

RoutePut ==
  /\ Call(MaxRouteOps)
  /\ \E id \in AllIds, data \in RouteData, r \in Reads, valid \in BOOLEAN :
       PutRoute(id, data, r.tv, r.tva, r.t, valid)

\* DELETE /:type/:id
RouteDelete == Call(MaxRouteOps) /\ \E id \in AllIds : DeleteContent(id)

RouteRestore == Call(MaxRouteOps) /\ RestoreVersion

NextRoutes == RoutePost \/ RoutePut \/ RouteDelete \/ RouteRestore

SpecRoutes == Init /\ [][NextRoutes]_vars

\* One record updated and restored often enough for cleanupOldVersions to
\* remove snapshots.  A call reads the clock within one instant: the
\* instant of the call before it, or the next one.

PruneId == "r1"

\* the clock now or, while it has one, at its next instant
PruneTicks ==
  { [tv |-> n, tva |-> n, t |-> n] :
      n \in clock..(IF clock < MaxPruneClock THEN clock + 1 ELSE clock) }

PruneCreate == Call(MaxPruneOps) /\ Create({[id |-> PruneId]})

PruneUpdate ==
  /\ Call(MaxPruneOps)
  /\ \E r \in PruneTicks :
       UpdateContent(PruneId, [title |-> "t1"], r.tv, r.tva, r.t, FALSE)

\* a restore of one of the snapshots listVersions returns
PruneRestore ==
  /\ Call(MaxPruneOps)
  /\ \E version \in ListVersions(versions, PruneId), r \in PruneTicks :
       Restore(PruneId, version["versionId"], r.tv, r.tva, r.t, FALSE)

NextPrune == PruneCreate \/ PruneUpdate \/ PruneRestore

SpecPrune == Init /\ [][NextPrune]_vars

\* Requests that overlap: updateContent is an async function, and between
\* two of its awaits the event loop runs the steps of other requests.

Requests == {"a", "b"}

OverlapId == "r1"

\* request p is removed from the calls in progress
Done(p) == [q \in (DOMAIN inflight) \ {p} |-> inflight[q]]

\* request p moves on to position pc with the locals of fields
Goto(p, fields) ==
  [q \in (DOMAIN inflight) \cup {p} |-> IF q = p THEN fields ELSE inflight[q]]

OverlapCreate == Call(MaxOverlapOps) /\ Create({[id |-> OverlapId]})

\* updateContent up to `await fs.pathExists(filePath)` (lines 141-149)
UpdateBegin ==
  LET OverlapData == {[title |-> "t1"], [title |-> "t2"], [body |-> "b1"]}
  IN  /\ ops < MaxOverlapOps
      /\ ops' = ops + 1
      /\ \E p \in Requests \ DOMAIN inflight, data \in OverlapData :
           IF ~PathExists(OverlapId)
           THEN /\ last' = Outcome("update", OverlapId, data, "null", Undefined)
                /\ UNCHANGED <<store, versions, written, clock, inflight>>
           ELSE /\ inflight' = Goto(p, [pc |-> "read", id |-> OverlapId, data |-> data,
                                         existing |-> EmptyObj, updated |-> EmptyObj,
                                         now |-> Undefined])
                /\ UNCHANGED <<store, versions, written, clock, last>>

\* `await fs.readJson(filePath)` (line 152): it throws when the file is
\* gone or does not parse, and updateContent with it
UpdateRead ==
  \E p \in DOMAIN inflight :
    /\ inflight[p].pc = "read"
    /\ IF ~PathExists(inflight[p].id) \/ store[inflight[p].id] = Truncated
       THEN /\ inflight' = Done(p)
            /\ last' = Outcome("update", inflight[p].id, inflight[p].data, "Error", Undefined)
       ELSE /\ inflight' = Goto(p, [inflight[p] EXCEPT !.pc = "snapshot",
                                                       !.existing = store[inflight[p].id]])
            /\ UNCHANGED last
    /\ UNCHANGED <<store, versions, written, clock, ops>>

\* `await versionHandler.createVersion(type, id, existing)` (lines 155-160)
UpdateSnapshot ==
  \E p \in DOMAIN inflight, tv \in clock..MaxClock :
    /\ inflight[p].pc = "snapshot"
    /\ versions' \in CreateVersion(versions, inflight[p].id, inflight[p].existing, tv, tv)
    /\ written' = written \cup {<<inflight[p].id, VersionOf(inflight[p].existing, tv, tv)>>}
    /\ clock' = tv
    /\ inflight' = Goto(p, [inflight[p] EXCEPT !.pc = "open"])
    /\ UNCHANGED <<store, last, ops>>

\* lines 162-186 and the start of `await fs.writeJson(filePath, updated)`
\* (line 188): the file is opened for writing, which truncates it
UpdateOpen ==
  \E p \in DOMAIN inflight, t \in clock..MaxClock :
    /\ inflight[p].pc = "open"
    /\ store' = [k \in (DOMAIN store) \cup {inflight[p].id} |->
                   IF k = inflight[p].id THEN Truncated ELSE store[k]]
    /\ clock' = t
    /\ inflight' = Goto(p, [inflight[p] EXCEPT
                              !.pc = "write",
                              !.now = ToISOString(t),
                              !.updated = Merged(inflight[p].existing, inflight[p].data,
                                                 inflight[p].id, ToISOString(t))])
    /\ UNCHANGED <<versions, written, last, ops>>

\* the end of fs.writeJson: the data is in the file, updateContent returns
UpdateWrite ==
  \E p \in DOMAIN inflight :
    /\ inflight[p].pc = "write"
    /\ store' = WriteJson(store, inflight[p].id, inflight[p].updated)
    /\ inflight' = Done(p)
    /\ last' = Outcome("update", inflight[p].id, inflight[p].data, "ok", inflight[p].now)
    /\ UNCHANGED <<versions, written, clock, ops>>

\* deleteContent through `await fs.remove(filePath)` (lines 196-201)
DeleteRemove ==
  /\ ops < MaxOverlapOps
  /\ ops' = ops + 1
  /\ \E p \in Requests \ DOMAIN inflight :
       inflight' = Goto(p, [pc |-> "versions", id |-> OverlapId, data |-> EmptyObj,
                            existing |-> EmptyObj, updated |-> EmptyObj,
                            now |-> Undefined])
  /\ store' = Remove(store, OverlapId)
  /\ UNCHANGED <<versions, written, clock, last>>

\* `await versionHandler.deleteAllVersions(type, id)` and `return true`
\* (lines 204-211)
DeleteVersions ==
  \E p \in DOMAIN inflight :
    /\ inflight[p].pc = "versions"
    /\ versions' = DeleteAllVersions(versions, inflight[p].id)
    /\ inflight' = Done(p)
    /\ last' = Outcome("delete", inflight[p].id, EmptyObj, "true", Undefined)
    /\ UNCHANGED <<store, written, clock, ops>>

\* getContent(type, id): data is the record returned; readJson throws on
\* a file that does not parse, and getContent rethrows
GetContentCall ==
  /\ Call(MaxOverlapOps)
  /\ last' = IF ~PathExists(OverlapId)
             THEN Outcome("get", OverlapId, EmptyObj, "null", Undefined)
             ELSE IF store[OverlapId] = Truncated
             THEN Outcome("get", OverlapId, EmptyObj, "Error", Undefined)
             ELSE Outcome("get", OverlapId, store[OverlapId], "ok", Undefined)
  /\ UNCHANGED <<store, versions, written, clock>>

\* listContent(type): data maps the ids of the records returned to them;
\* a file that does not parse is skipped with a warning
ListContentCall ==
  /\ Call(MaxOverlapOps)
  /\ last' = Outcome("list", Undefined,
                     Restrict(store, {id \in DOMAIN store : store[id] # Truncated}),
                     "ok", Undefined)
  /\ UNCHANGED <<store, versions, written, clock>>

NextOverlap ==
  \/ OverlapCreate
  \/ UpdateBegin
  \/ UpdateRead
  \/ UpdateSnapshot
  \/ UpdateOpen
  \/ UpdateWrite
  \/ DeleteRemove
  \/ DeleteVersions
  \/ GetContentCall
  \/ ListContentCall

SpecOverlap == Init /\ [][NextOverlap]_vars

\* POST requests that overlap: the route and createContent are async
\* functions, and between two of their awaits the event loop runs the
\* steps of other requests.

\* number of POST requests in a run of SpecCreate
MaxCreateOps == 3

\* POST /:type through `await validator.validateUniqueness(type, data)`
\* (lines 64-85); the bodies are valid for the schema, and uuidv4() gives
\* each request an id of its own
PostBegin ==
  /\ ops < MaxCreateOps
  /\ ops' = ops + 1
  /\ \E p \in Requests \ DOMAIN inflight :
       \E data \in {[id |-> "r1"], [id |-> "r1", title |-> "t2"],
                    [slug |-> "Slug-A"], [slug |-> "slug-a"]} :
         IF ValidateUniqueness(store, data, Null) # {}
         THEN /\ last' = Rejected("create", Get(data, "id"), data, "Conflict",
                                  ValidateUniqueness(store, data, Null))
              /\ UNCHANGED inflight
         ELSE /\ inflight' = Goto(p, [pc |-> "pathExists",
                                      id |-> Or(Get(data, "id"), "u-" \o p),
                                      data |-> data, existing |-> EmptyObj,
                                      updated |-> EmptyObj, now |-> Undefined])
              /\ UNCHANGED last
  /\ UNCHANGED <<store, versions, written, clock>>

\* createContent through `await fs.pathExists(filePath)` and the throw
\* (lines 103-131)
CreateExists ==
  \E p \in DOMAIN inflight, t \in clock..MaxClock :
    /\ inflight[p].pc = "pathExists"
    /\ clock' = t
    /\ IF PathExists(inflight[p].id)
       THEN /\ inflight' = Done(p)
            /\ last' = Outcome("create", inflight[p].id, inflight[p].data,
                               "Conflict", ToISOString(t))
       ELSE /\ inflight' = Goto(p, [inflight[p] EXCEPT
                                      !.pc = "writeJson",
                                      !.now = ToISOString(t),
                                      !.updated = NewContent(inflight[p].data,
                                                             inflight[p].id,
                                                             ToISOString(t))])
            /\ UNCHANGED last
    /\ UNCHANGED <<store, versions, written, ops>>

\* `await fs.writeJson(filePath, content, { spaces: 2 })` and
\* `return content` (lines 133-134)
CreateWrite ==
  \E p \in DOMAIN inflight :
    /\ inflight[p].pc = "writeJson"
    /\ store' = WriteJson(store, inflight[p].id, inflight[p].updated)
    /\ inflight' = Done(p)
    /\ last' = Outcome("create", inflight[p].id, inflight[p].data, "ok", inflight[p].now)
    /\ UNCHANGED <<versions, written, clock, ops>>

NextCreate ==
  \/ PostBegin
  \/ CreateExists
  \/ CreateWrite

SpecCreate == Init /\ [][NextCreate]_vars

\* Updates of one record that overlap inside createVersion: the write of
\* the snapshot, listVersions and the removals of cleanupOldVersions are
\* awaits of their own.  The clock is read within one instant, as in
\* SpecPrune; the record itself is written in one step.

\* A run starts where SpecPrune arrives: the record was created at instant
\* 0 and updated once at each of the instants 1..n, so that the version
\* directory holds n snapshots, with n one short of the 10 kept or equal
\* to it.
InitCleanup ==
  \E n \in (KeepCount - 1)..KeepCount :
    LET data == [title |-> "t1"]
        after[i \in 0..n] ==
          IF i = 0 THEN JsonRoundTrip(NewContent([id |-> OverlapId], OverlapId, ToISOString(0)))
          ELSE JsonRoundTrip(Merged(after[i - 1], data, OverlapId, ToISOString(i)))
        snapshot(i) == JsonRoundTrip(VersionOf(after[i - 1], i, i))
    IN  /\ store = [k \in {OverlapId} |-> after[n]]
        /\ versions = [k \in {OverlapId} |->
                         [v \in {VersionIdOf(i) : i \in 1..n} |->
                            snapshot(CHOOSE i \in 1..n : VersionIdOf(i) = v)]]
        /\ written = {<<OverlapId, VersionOf(after[i - 1], i, i)>> : i \in 1..n}
        /\ clock = n
        /\ last = Outcome("update", OverlapId, data, "ok", ToISOString(n))
        /\ ops = 0
        /\ inflight = EmptyObj

\* the requests in flight after request p moved on to rec and the file
\* name of the version directory changed to content.  listVersions reads
\* the files it found one at a time (lines 59-69): a request in that loop
\* reads the file before the change or after it
Observe(p, rec, name, content) ==
  { [q \in (DOMAIN inflight) \cup {p} |->
       IF q = p THEN rec
       ELSE IF q \in late
       THEN [inflight[q] EXCEPT !.seen = [@ EXCEPT ![name] = content]]
       ELSE inflight[q]] :
      late \in SUBSET { q \in (DOMAIN inflight) \ {p} :
                          /\ inflight[q].pc = "readJson"
                          /\ name \in DOMAIN inflight[q].seen } }

\* updateContent up to `await fs.pathExists(filePath)` (lines 141-149)
CleanupBegin ==
  /\ ops < MaxCleanupOps
  /\ ops' = ops + 1
  /\ \E p \in (1..MaxInFlight) \ DOMAIN inflight :
       IF ~PathExists(OverlapId)
       THEN /\ last' = Outcome("update", OverlapId, [title |-> "t1"], "null", Undefined)
            /\ UNCHANGED <<store, versions, written, clock, inflight>>
       ELSE /\ inflight' = Goto(p, [pc |-> "read", id |-> OverlapId,
                                     data |-> [title |-> "t1"],
                                     existing |-> EmptyObj, updated |-> EmptyObj,
                                     now |-> Undefined, version |-> EmptyObj,
                                     seen |-> EmptyObj, toRemove |-> EmptyObj])
            /\ UNCHANGED <<store, versions, written, clock, last>>

\* createVersion up to the start of `await fs.writeJson(versionPath,
\* version)` (versionHandler.js lines 24-36): the file is opened, which
\* creates it empty or truncates it
VersionOpen ==
  \E p \in DOMAIN inflight :
    \E tv \in clock..(IF clock < MaxCleanupClock THEN clock + 1 ELSE clock) :
      LET id  == inflight[p].id
          dir == IF id \in DOMAIN versions THEN versions[id] ELSE EmptyObj
      IN  /\ inflight[p].pc = "snapshot"
          /\ clock' = tv
          /\ versions' = [k \in (DOMAIN versions) \cup {id} |->
                            IF k = id
                            THEN [n \in (DOMAIN dir) \cup {VersionIdOf(tv)} |->
                                    IF n = VersionIdOf(tv) THEN Truncated ELSE dir[n]]
                            ELSE versions[k]]
          /\ inflight' \in Observe(p, [inflight[p] EXCEPT
                                         !.pc = "versionWrite",
                                         !.version = VersionOf(inflight[p].existing, tv, tv)],
                                   VersionIdOf(tv), Truncated)
          /\ UNCHANGED <<store, written, last, ops>>

\* the end of fs.writeJson (line 36): the snapshot is in the file
VersionWrite ==
  \E p \in DOMAIN inflight :
    LET id      == inflight[p].id
        version == inflight[p].version
        dir     == IF id \in DOMAIN versions THEN versions[id] ELSE EmptyObj
    IN  /\ inflight[p].pc = "versionWrite"
        /\ versions' = [k \in (DOMAIN versions) \cup {id} |->
                          IF k = id THEN WriteJson(dir, version["versionId"], version)
                          ELSE versions[k]]
        /\ written' = written \cup {<<id, version>>}
        /\ inflight' \in Observe(p, [inflight[p] EXCEPT !.pc = "readdir"],
                                 version["versionId"], JsonRoundTrip(version))
        /\ UNCHANGED <<store, clock, last, ops>>

\* cleanupOldVersions calls listVersions: fs.pathExists and fs.readdir
\* (lines 39, 109, 50-56); seen maps the files found to what reading them
\* gives
VersionReaddir ==
  \E p \in DOMAIN inflight :
    /\ inflight[p].pc = "readdir"
    /\ inflight' = Goto(p, [inflight[p] EXCEPT
                              !.pc = "readJson",
                              !.seen = IF inflight[p].id \in DOMAIN versions
                                       THEN versions[inflight[p].id] ELSE EmptyObj])
    /\ UNCHANGED <<store, versions, written, clock, last, ops>>

\* CleanupList with a listVersions that has no try and catch around
\* fs.readJson: a file that cannot be read ends the cleanup
CleanupListThrows ==
  \E p \in DOMAIN inflight :
    LET seen   == inflight[p].seen
        parsed == Restrict(seen, {n \in DOMAIN seen : seen[n] # Truncated})
    IN  /\ inflight[p].pc = "readJson"
        /\ \E kept \in CleanupOldVersions(parsed, KeepCount) :
             LET toRemove == IF \E n \in DOMAIN seen : seen[n] = Truncated
                             THEN EmptyObj
                             ELSE Restrict(parsed, (DOMAIN parsed) \ (DOMAIN kept))
             IN  inflight' = Goto(p, [inflight[p] EXCEPT
                                       !.pc = IF toRemove = EmptyObj THEN "merge" ELSE "remove",
                                       !.toRemove = toRemove])
        /\ UNCHANGED <<store, versions, written, clock, last, ops>>

\* the end of listVersions and the choice of cleanupOldVersions (lines
\* 59-79, 111-116): the files that did not parse are skipped, the rest is
\* sorted newest first, and what follows the first 10 is to be removed
CleanupList ==
  \E p \in DOMAIN inflight :
    LET seen   == inflight[p].seen
        parsed == Restrict(seen, {n \in DOMAIN seen : seen[n] # Truncated})
    IN  /\ inflight[p].pc = "readJson"
        /\ \E kept \in CleanupOldVersions(parsed, KeepCount) :
             LET toRemove == Restrict(parsed, (DOMAIN parsed) \ (DOMAIN kept))
             IN  inflight' = Goto(p, [inflight[p] EXCEPT
                                       !.pc = IF toRemove = EmptyObj THEN "merge" ELSE "remove",
                                       !.toRemove = toRemove])
        /\ UNCHANGED <<store, versions, written, clock, last, ops>>

\* one turn of the loop of cleanupOldVersions (lines 119-126): the newest
\* of the snapshots still to remove is removed
CleanupRemove ==
  \E p \in DOMAIN inflight :
    /\ inflight[p].pc = "remove"
    /\ \E n \in DOMAIN inflight[p].toRemove :
         LET toRemove == inflight[p].toRemove
             id       == inflight[p].id
             rest     == Remove(toRemove, n)
         IN  /\ \A m \in DOMAIN toRemove :
                  VersionTime(toRemove[n]) >= VersionTime(toRemove[m])
             /\ versions' = [k \in DOMAIN versions |->
                               IF k = id
                               THEN Remove(versions[k], toRemove[n]["versionId"])
                               ELSE versions[k]]
             /\ inflight' \in Observe(p, [inflight[p] EXCEPT
                                            !.pc = IF rest = EmptyObj THEN "merge" ELSE "remove",
                                            !.toRemove = rest],
                                      toRemove[n]["versionId"], Truncated)
    /\ UNCHANGED <<store, written, clock, last, ops>>

\* updateContent after createVersion (fileHandler.js lines 162-189)
UpdateMerge ==
  \E p \in DOMAIN inflight :
    LET now     == ToISOString(clock)
        updated == Merged(inflight[p].existing, inflight[p].data, inflight[p].id, now)
    IN  /\ inflight[p].pc = "merge"
        /\ store' = WriteJson(store, inflight[p].id, updated)
        /\ inflight' = Done(p)
        /\ last' = Outcome("update", inflight[p].id, inflight[p].data, "ok", now)
        /\ UNCHANGED <<versions, written, clock, ops>>

NextCleanup ==
  \/ CleanupBegin
  \/ UpdateRead
  \/ VersionOpen
  \/ VersionWrite
  \/ VersionReaddir
  \/ CleanupList
  \/ CleanupRemove
  \/ UpdateMerge

SpecCleanup == InitCleanup /\ [][NextCleanup]_vars

\* The functions of queryParser.js and the listings of fileHandler.js
\* applied to inputs of bounded size; last holds the call and its result.

\* the sequences over S of length up to n
SeqsUpTo(S, n) == UNION { [1..k -> S] : k \in 0..n }

\* the call op(input) before it is made
Pending(op, input) == Outcome(op, Undefined, input, Undefined, Undefined)

\* the pending call is op
Calling(op) == ops = 0 /\ last.op = op

\* the pending call returns result; it writes nothing
Returns(result) ==
  /\ last' = [last EXCEPT !.res = result]
  /\ ops' = ops + 1
  /\ UNCHANGED <<store, versions, written, clock, inflight>>

\* GET /:type with filter parameters
FilterCall ==
  /\ Calling("filter")
  /\ \E result \in ListContent(last.data.contents, ParseQuery(last.data.query)) :
       Returns(result)

\* matchesCondition applied to a stored value and the text of a parameter
ConditionCall ==
  /\ Calling("matchesCondition")
  /\ Returns(MatchesCondition(last.data.value, last.data.operator, last.data.filterValue))

SortCall ==
  /\ Calling("sortItems")
  /\ \E result \in SortItems(last.data.items,
                              [field |-> "price", direction |-> last.data.direction]) :
       Returns(result)

SearchCall ==
  /\ Calling("matchesSearch")
  /\ Returns(MatchesSearch(last.data.item, last.data.searchTerm))

\* the listings of a type of up to MaxItems + 2 records
PageLists ==
  { [i \in 1..n |-> JObject(<<Entry("id", JString("i" \o ToString(i)))>>)] :
      n \in 0..(MaxItems + 2) }

\* GET /:type with pagination parameters
PageCall ==
  /\ Calling("page")
  /\ \E result \in ListContent(last.data.contents, ParseQuery(last.data.query)) :
       Returns(result)

\* listContent(type, {}), as validateUniqueness and getRelatedContent call it
ListAllCall ==
  /\ Calling("listAll")
  /\ \E result \in ListContent(last.data.contents, EmptyObj) :
       Returns(result)

RelatedTarget == "a"

\* the record getRelatedContent is asked about
TargetItem ==
  JObject(<<Entry("id", JString(RelatedTarget)),
            Entry("tags", JArray(<<JString("x"), JString("y")>>)),
            Entry("category", JString("c1"))>>)

\* the other records of the type
Candidates(id) ==
  { JObject(SelectSeq(<<Entry("id", JString(id)), Entry("tags", row.tags),
                         Entry("category", row.category), Entry("related", row.related),
                         Entry("linked", row.linked)>>,
                      LAMBDA e : e.v # JUndefined)) :
      row \in [tags     : {JUndefined, JArray(<<JString("x")>>),
                           JArray(<<JString("y"), JString("x")>>)},
               category : {JUndefined, JString("c1"), JString("c2")},
               related  : {JUndefined, JString(RelatedTarget),
                           JObject(<<Entry("id", JString(RelatedTarget))>>)},
               linked   : {JUndefined, JArray(<<JString("z"), JString(RelatedTarget)>>)}] }

\* the options of GET /:type/:id/related without parameters
RelatedOptions == [limit |-> DefaultOptions.limit, offset |-> DefaultOptions.offset]

\* GET /:type/:id/related without parameters
RelatedCall ==
  /\ Calling("related")
  /\ \E result \in GetRelatedContent(last.data.contents, last.data.id, RelatedOptions) :
       Returns(result)

\* a request under /api passes app.use('/api', ...) and is dispatched
ApiCall ==
  /\ Calling("request")
  /\ Returns(ApiGate(last.data))

NextQuery ==
  \/ ApiCall
  \/ FilterCall
  \/ ConditionCall
  \/ SearchCall
  \/ PageCall
  \/ ListAllCall
  \/ RelatedCall

\* one call, of any function with any of its inputs, is about to be made
InitQuery ==
  \* requests under /api: every method on paths of each router, with and
  \* without each header
  LET ApiCalls ==
        LET paths ==
              { <<"content", "page">>, <<"content", "page", "r1">>,
                <<"content", "page", "r1", "versions">>,
                <<"content", "page", "r1", "restore", "v1">>,
                <<"content", "page", "file">>,
                <<"media">>, <<"media", "upload">>, <<"media", "images", "a.png">>,
                <<"media", "images", "a.png", "file">>, <<"media", "images", "file">>,
                <<"media", "file">>, <<"schema">>, <<"other">> }
        IN  { Pending("request", req) :
                req \in [method           : {"GET", "POST", "PUT", "DELETE"},
                         path             : paths,
                         authorization    : {Undefined, "Bearer " \o ApiKey, "Bearer bad",
                                             "Bearer ", ApiKey},
                         xApiKey          : {Undefined, ApiKey, "bad"},
                         publicGetEnabled : BOOLEAN] }
  IN  \* the record asked about, alone or with one or two other records
      LET RelatedCalls ==
            LET lists ==
                  { <<TargetItem>> } \cup
                  { <<b, TargetItem>> : b \in Candidates("b") } \cup
                  { <<TargetItem, b, c>> :
                      b \in Candidates("b"),
                      c \in { x \in Candidates("c") : Prop(x, "linked") = JUndefined } }
            IN  { Pending("related", [id |-> id, contents |-> contents]) :
                    contents \in lists, id \in {RelatedTarget, "q"} }
      IN  \* the listings with limit and offset parameters
          LET PageCalls ==
                LET queries ==
                      { SelectSeq(<<Entry("limit", row.limit), Entry("offset", row.offset)>>,
                                  LAMBDA e : e.v # Undefined) :
                          row \in [limit  : {Undefined, "1", "2", "0", "-1", "abc", "2x", "30"},
                                   offset : {Undefined, "0", "1", "3", "-1", "abc", "1.5"}] }
                IN  { Pending("page", [query |-> query, contents |-> contents]) :
                        query \in queries, contents \in PageLists }
          IN  \* records with a string somewhere in a field, and search terms
              LET SearchCalls ==
                    LET nestings(string) ==
                          { string,
                            JNumber(15),
                            JObject(<<Entry("inner", string)>>),
                            JObject(<<Entry("inner", JObject(<<Entry("deep", string)>>))>>),
                            JObject(<<Entry("inner", JArray(<<string>>))>>),
                            JArray(<<JNumber(15), string>>),
                            JArray(<<JObject(<<Entry("inner", string)>>)>>),
                            JArray(<<JArray(<<string>>)>>) }
                        items ==
                          { JObject(<<Entry("id", JString("i1")), Entry("body", body)>>) :
                              body \in UNION { nestings(JString(text)) : text \in {"Ab", "xy"} } }
                        terms == {"ab", "AB", "b", "y", "ba"}
                    IN  { Pending("matchesSearch", [item |-> item, searchTerm |-> searchTerm]) :
                            item \in items, searchTerm \in terms }
              IN  \* stored values, operators and the texts of a parameter
                  LET ConditionCalls ==
                        LET values ==
                              {JUndefined, JNull, JBoolean(TRUE), JBoolean(FALSE), JNumber(0), JNumber(1),
                               JNumber(15), JString("15"), JString("true"), JString(""), JString("Ab"),
                               JArray(<<JString("15")>>), JArray(<<JNumber(5), JNumber(15)>>)}
                            operators == {"eq", "ne", "gt", "gte", "lt", "lte", "in", "contains"}
                            texts == {"", "0", "1", "15", " 15", "true", "false", "ab", "null", "5,15"}
                        IN  { Pending("matchesCondition",
                                      [value |-> value, operator |-> operator,
                                       filterValue |-> FilterValueOf(operator, text)]) :
                                value \in values, operator \in operators, text \in texts }
                  IN  \* the listings with filter parameters: records with a price, a flag and
                      \* a title; Object.entries(req.query) with distinct keys, in order
                      LET FilterCalls ==
                            LET items ==
                                  { JObject(SelectSeq(<<Entry("price", row.price), Entry("flag", row.flag),
                                                         Entry("title", JString("Ab"))>>,
                                                      LAMBDA e : e.v # JUndefined)) :
                                      row \in [price : {JUndefined, JNumber(5), JNumber(15), JString("15")},
                                               flag  : {JUndefined, JBoolean(TRUE)}] }
                                keys ==
                                  {"price", "price__gt", "price__lte", "price__ne", "price__in", "flag", "flag__ne",
                                   "title__contains"}
                                values == {"5", "15", "true", "5, 15", "aB"}
                                queries ==
                                  { q \in SeqsUpTo({ Entry(k, v) : k \in keys, v \in values }, MaxParams) :
                                      \A i, j \in DOMAIN q : i # j => q[i].k # q[j].k }
                            IN  { Pending("filter", [query |-> query, contents |-> contents]) :
                                    query \in queries, contents \in SeqsUpTo(items, MaxItems) }
                      IN  LET ListAllCalls ==
                                { Pending("listAll", [query |-> <<>>, contents |-> contents]) : contents \in PageLists }
                          IN  /\ store = EmptyObj
                              /\ versions = EmptyObj
                              /\ written = {}
                              /\ clock = 0
                              /\ ops = 0
                              /\ inflight = EmptyObj
                              /\ last \in FilterCalls \cup ConditionCalls \cup SearchCalls
                                           \cup PageCalls \cup ListAllCalls \cup RelatedCalls \cup ApiCalls

SpecQuery == InitQuery /\ [][NextQuery]_vars

\* sortItems about to be called with any of its inputs
InitSort ==
  \* lists to sort: the sort field of a record is absent, null or a number
  LET SortCalls ==
        LET item(i, price) ==
              JObject(SelectSeq(<<Entry("id", JString("i" \o ToString(i))),
                                  Entry("price", price)>>,
                                LAMBDA e : e.v # JUndefined))
            lists ==
              { [i \in DOMAIN prices |-> item(i, prices[i])] :
                  prices \in SeqsUpTo({JUndefined, JNull, JNumber(5), JNumber(15)}, MaxSortItems) }
        IN  { Pending("sortItems", [items |-> items, direction |-> direction]) :
                items \in lists, direction \in {"asc", "desc"} }
  IN  /\ store = EmptyObj
      /\ versions = EmptyObj
      /\ written = {}
      /\ clock = 0
      /\ ops = 0
      /\ inflight = EmptyObj
      /\ last \in SortCalls

SpecSort == InitSort /\ [][SortCall]_vars

(* ------------------------------ claims --------------------------------- *)

\* the step is a call of op
StepOf(op) == ops' = ops + 1 /\ last'.op = op

\* the step is an update or a restore that wrote the record last'.id
Updated == (StepOf("update") \/ StepOf("restore")) /\ last'.res = "ok"

\* data carries a value for key (JSON null is no value)
Supplied(data, key) == key \in DOMAIN data /\ data[key] # Null

\* the record the contract of create promises for data
Promised(data, id, now) ==
  LET status == IF Supplied(data, "status") THEN data["status"] ELSE "draft"
      keys   == (DOMAIN data) \cup {"id", "status", "createdAt", "updatedAt"}
                  \cup (IF status = "published" THEN {"publishedAt"} ELSE {})
  IN  [k \in keys |->
         CASE k = "id"          -> id
           [] k = "status"      -> status
           [] k = "createdAt"   -> IF Supplied(data, "createdAt")
                                   THEN data["createdAt"] ELSE now
           [] k = "updatedAt"   -> now
           [] k = "publishedAt" -> IF status = "published" /\ ~Supplied(data, "publishedAt")
                                   THEN now ELSE data["publishedAt"]
           [] OTHER             -> data[k]]

\* C2: after a successful createContent(data), getContent of the returned
\* id is data plus id (data.id when supplied, otherwise a fresh
\* identifier), status (data.status, otherwise draft), createdAt
\* (data.createdAt when supplied, otherwise now), updatedAt = now, and
\* publishedAt = now when the status is published and none was supplied.
C2_CreateThenRead ==
  (last.op = "create" /\ last.res = "ok") =>
    /\ last.id = (IF Supplied(last.data, "id") THEN last.data["id"] ELSE last.id)
    /\ Supplied(last.data, "id") \/ last.id \in Uuids
    /\ GetContent(store, last.id) = Promised(last.data, last.id, last.at)

\* a record was created published, without an id and with a null createdAt
C2_Witness ==
  /\ last.op = "create" /\ last.res = "ok"
  /\ "id" \notin DOMAIN last.data
  /\ Get(last.data, "createdAt") = Null
  /\ Get(store[last.id], "status") = "published"

\* C3: createContent with an explicit id whose record exists fails with
\* Conflict and leaves the record and its version history as they were.
C3_CreateConflict ==
  [][ (StepOf("create") /\ Supplied(last'.data, "id") /\ last'.data["id"] \in DOMAIN store)
        => (last'.res = "Conflict" /\ store' = store /\ versions' = versions) ]_vars

\* a create was refused for an id that has a record and a snapshot
C3_Witness ==
  /\ last.op = "create" /\ last.res = "Conflict"
  /\ Supplied(last.data, "id")
  /\ last.id \in DOMAIN store
  /\ ListVersions(versions, last.id) # {}

\* C4: updateContent on an id without a current record returns null and
\* writes neither a record file nor a version snapshot.
C4_UpdateMissing ==
  [][ (StepOf("update") /\ last'.id \notin DOMAIN store)
        => (last'.res = "null" /\ store' = store /\ versions' = versions) ]_vars

\* an update of a missing id returned null while another record exists
C4_Witness ==
  /\ last.op = "update" /\ last.res = "null"
  /\ last.id \notin DOMAIN store
  /\ DOMAIN store # {}
  /\ DOMAIN last.data # {}

\* C5: deleteContent returns true exactly when a current record existed,
\* false when none existed, and in both cases no snapshot of the id remains.
C5_DeleteReturnsExisted ==
  [][ StepOf("delete")
        => /\ (last'.res = "true") <=> (last'.id \in DOMAIN store)
           /\ (last'.res = "false") <=> (last'.id \notin DOMAIN store)
           /\ ListVersions(versions', last'.id) = {} ]_vars

\* C7: an update or a restore leaves the stored createdAt as it was.
C7_CreatedAtFixed ==
  [][ Updated => Get(store'[last'.id], "createdAt") = Get(store[last'.id], "createdAt") ]_vars

\* C8: with a clock that never goes backwards, an update stores an
\* updatedAt that is not before the updatedAt it replaces, whatever the data.
C8_UpdatedAtMonotone ==
  [][ Updated => GetTime(Get(store'[last'.id], "updatedAt"))
                   >= GetTime(Get(store[last'.id], "updatedAt")) ]_vars

\* an update whose data carried an updatedAt older than the one it stored
C8_Witness ==
  /\ last.op = "update" /\ last.res = "ok"
  /\ "updatedAt" \in DOMAIN last.data
  /\ GetTime(last.data["updatedAt"]) < GetTime(Get(store[last.id], "updatedAt"))

\* C6: after deleteContent of an updated record, getContent finds nothing
\* and listVersions is empty, and a record created later under the same id
\* starts with an empty version history.
C6_DeleteClearsHistory ==
  /\ last.op = "delete" =>
       (GetContent(store, last.id) = EmptyObj /\ ListVersions(versions, last.id) = {})
  /\ (last.op = "create" /\ last.res = "ok") => ListVersions(versions, last.id) = {}

\* a record was created under an id for which snapshots were written before
C6_Witness ==
  /\ last.op = "create" /\ last.res = "ok"
  /\ \E w \in written : w[1] = last.id

\* the stored publishedAt of id in st; Undefined and Null are "unset"
PublishedAt(st, id) == Get(GetContent(st, id), "publishedAt")

\* the step is a create that wrote the record last'.id
Created == StepOf("create") /\ last'.res = "ok"

\* C9 as stated: the operation that brings the status to published while
\* publishedAt is unset sets publishedAt to its own time, and an update
\* whose data has no publishedAt leaves the stored publishedAt unchanged.
C9_PublishedAtOnce ==
  [][ /\ ( /\ Created \/ Updated
           /\ Get(store'[last'.id], "status") = "published"
           /\ ~Truthy(PublishedAt(store, last'.id))
           /\ Created => ~Supplied(last'.data, "publishedAt") )
        => PublishedAt(store', last'.id) = last'.at
      /\ ( Updated /\ "publishedAt" \notin DOMAIN last'.data
           /\ Truthy(PublishedAt(store, last'.id)) )
        => PublishedAt(store', last'.id) = PublishedAt(store, last'.id) ]_vars

\* C9 amended: an operation whose data supplies no publishedAt and that
\* brings the status to published while publishedAt is unset sets
\* publishedAt to its own time; an update whose data has no publishedAt
\* leaves a publishedAt that is set unchanged, whatever the status becomes;
\* a publishedAt in the data of an update is stored as given.
C9_PublishedAtUnlessSupplied ==
  [][ /\ ( /\ Created \/ Updated
           /\ Get(store'[last'.id], "status") = "published"
           /\ ~Truthy(PublishedAt(store, last'.id))
           /\ Created => ~Supplied(last'.data, "publishedAt")
           /\ Updated => "publishedAt" \notin DOMAIN last'.data )
        => PublishedAt(store', last'.id) = last'.at
      /\ ( Updated /\ "publishedAt" \notin DOMAIN last'.data
           /\ Truthy(PublishedAt(store, last'.id)) )
        => PublishedAt(store', last'.id) = PublishedAt(store, last'.id)
      /\ ( Updated /\ "publishedAt" \in DOMAIN last'.data )
        => PublishedAt(store', last'.id) = last'.data["publishedAt"] ]_vars

\* an update without publishedAt moved a published record back to draft
\* and its publishedAt, set at an earlier instant, is still stored
C9_Witness ==
  /\ last.op = "update" /\ last.res = "ok"
  /\ "publishedAt" \notin DOMAIN last.data
  /\ Get(last.data, "status") = "draft"
  /\ Truthy(PublishedAt(store, last.id))
  /\ GetTime(PublishedAt(store, last.id)) < GetTime(last.at)

\* the fields of a snapshot other than versionId and versionedAt
\* (C10: they equal the record stored before the update)
SnapshotFields(version) ==
  [k \in (DOMAIN version) \ {"versionId", "versionedAt"} |-> version[k]]

\* C10: every successful update adds exactly one snapshot, which holds the
\* record as stored before the update, so n <= 10 updates of a new record
\* leave n snapshots however close together in time they are.
C10_OneSnapshotPerUpdate ==
  [][ (StepOf("update") /\ last'.res = "ok")
        => \E v \in ListVersions(versions', last'.id) \ ListVersions(versions, last'.id) :
             /\ SnapshotFields(v) = store[last'.id]
             /\ Cardinality(ListVersions(versions', last'.id))
                  = Cardinality(ListVersions(versions, last'.id)) + 1 ]_vars

\* the unique fields of records a and b collide
Collide(a, b) ==
  \E f \in UniqueFields :
    /\ IsString(Get(a, f)) /\ IsString(Get(b, f))
    /\ ToLowerCase(Get(a, f)) = ToLowerCase(Get(b, f))

\* C1: after any sequence of create, update, restore and delete requests,
\* no two stored records hold values of a unique field that are equal
\* (strings compared case-insensitively).
C1_UniqueFieldsDistinct ==
  \A a, b \in DOMAIN store : a # b => ~Collide(store[a], store[b])

\* every snapshot createVersion ever wrote for id
EverCreated(id) == { w[2] : w \in { x \in written : x[1] = id } }

\* C11: after any number of successive updates of a record, listVersions
\* returns at most 10 snapshots, all of them when fewer than 10 were
\* created, and otherwise those with the greatest versionedAt among all
\* the snapshots ever created for the record.
C11_NewestTenListed ==
  \A id \in DOMAIN store :
    LET listed  == ListVersions(versions, id)
        created == EverCreated(id)
    IN  /\ Cardinality(listed) <= KeepCount
        /\ listed \subseteq created
        /\ Cardinality(created) <= KeepCount => listed = created
        /\ Cardinality(created) >= KeepCount => Cardinality(listed) = KeepCount
        /\ \A a \in listed, b \in created \ listed : VersionTime(a) >= VersionTime(b)

\* obj without the keys of keys
FieldsBut(obj, keys) == [k \in (DOMAIN obj) \ keys |-> obj[k]]

\* C12: after a version V of a record is restored, the fields of the
\* current record equal the fields of V, updatedAt aside: every field of V
\* has the value it has in V, and the record has no field that V lacks.
C12_RestoreEqualsVersion ==
  (last.op = "restore" /\ last.res = "ok") =>
    FieldsBut(store[last.id], {"updatedAt"}) = FieldsBut(last.data, {"updatedAt"})

\* C13: a restore only adds to the history, whatever its length: it
\* creates exactly one new snapshot, which holds the record as it was
\* before the restore, and every snapshot listVersions returned before the
\* restore, the restored one included, is still returned after it.
C13_RestoreOnlyAdds ==
  [][ (StepOf("restore") /\ last'.res = "ok")
        => LET before == ListVersions(versions, last'.id)
               after  == ListVersions(versions', last'.id)
           IN  /\ before \subseteq after
               /\ Cardinality(after \ before) = 1
               /\ \A v \in after \ before : SnapshotFields(v) = store[last'.id] ]_vars

\* an updateContent of id has begun and not returned
Updating(id) == \E p \in DOMAIN inflight : inflight[p].id = id

\* the records a reader may see while the updates in progress run: the
\* record each of them read, and the record each of them is writing
Complete(id) ==
  { inflight[p].existing : p \in { q \in DOMAIN inflight :
        inflight[q].id = id /\ inflight[q].pc # "read" } }
    \cup { JsonRoundTrip(inflight[p].updated) : p \in { q \in DOMAIN inflight :
        inflight[q].id = id /\ inflight[q].pc = "write" } }
    \cup { store[i] : i \in { j \in DOMAIN store : j = id /\ store[j] # Truncated } }

\* C14: a getContent or a listContent that runs while an update of the
\* same record is in progress observes the complete record as it was
\* before the update or as it is after it, never a partial, empty or
\* missing file.
C14_ReadersSeeCompleteRecord ==
  [][ /\ (StepOf("get") /\ Updating(last'.id))
        => (last'.res = "ok" /\ last'.data \in Complete(last'.id))
      /\ (StepOf("list") /\ Updating(OverlapId))
        => (OverlapId \in DOMAIN last'.data
              /\ last'.data[OverlapId] \in Complete(OverlapId)) ]_vars

\* the call op of SpecQuery has returned
Returned(op) == ops = 1 /\ last.op = op

\* item satisfies the filter parameter entry, taken by itself
ParamHolds(item, entry) ==
  IF OperatorMatch(entry.k) # <<>>
  THEN MatchesCondition(GetNestedValue(item, OperatorMatch(entry.k)[1]),
                        OperatorMatch(entry.k)[2],
                        FilterValueOf(OperatorMatch(entry.k)[2], entry.v))
  ELSE MatchesCondition(GetNestedValue(item, entry.k), "eq", JString(entry.v))

\* C15: for every set of filter parameters, several of them on one field
\* in any order included, the listing returns exactly the items that
\* satisfy every parameter supplied, in their original relative order.
C15_EveryFilterApplies ==
  Returned("filter") =>
    LET satisfiesAll(item) ==
          \A i \in DOMAIN last.data.query : ParamHolds(item, last.data.query[i])
    IN  last.res.data = SelectSeq(last.data.contents, satisfiesAll)

\* C16: eq matches a text with a stored boolean or number of the same
\* textual form ("true" with true, "15" with 15), and ne is the negation
\* of eq on every pair of values.
C16_LooseEquality ==
  Returned("matchesCondition") =>
    /\ ( /\ last.data.operator = "eq"
         /\ last.data.value.t \in {"boolean", "number"}
         /\ last.data.value.s = last.data.filterValue.s ) => last.res = TRUE
    /\ last.data.operator = "ne" =>
         last.res = ~MatchesCondition(last.data.value, "eq", last.data.filterValue)

\* the sort field of record i of list is missing or null
Missing(list, i) == GetNestedValue(list[i], "price").t \in {"undefined", "null"}

RECURSIVE AnyString(_, _)

\* some string in v, at any depth, contains the lower-cased term
AnyString(v, searchLower) ==
  \/ v.t = "string" /\ Includes(LowerChars(v.s), searchLower)
  \/ \E i \in DOMAIN v.kids : AnyString(v.kids[i].v, searchLower)

\* C18: matchesSearch is true exactly when some string value anywhere in
\* the item contains the term case-insensitively: in nested objects, in
\* lists, and in objects or lists that are elements of a list.
C18_SearchAnyDepth ==
  Returned("matchesSearch") =>
    last.res = AnyString(last.data.item, LowerChars(last.data.searchTerm))

\* the value of parameter key in query, Undefined when it is not given
Param(query, key) ==
  IF \E i \in DOMAIN query : query[i].k = key
  THEN query[CHOOSE i \in DOMAIN query : query[i].k = key].v
  ELSE Undefined

\* a limit is set: the parameter is an integer of at least 1
LimitSet(query) ==
  /\ Param(query, "limit") # Undefined
  /\ ~ParseInt(Param(query, "limit")).nan
  /\ ParseInt(Param(query, "limit")).n >= 1

\* the offset in force: the parameter when it is an integer of at least 0
OffsetOf(query) ==
  IF /\ Param(query, "offset") # Undefined
     /\ ~ParseInt(Param(query, "offset")).nan
     /\ ParseInt(Param(query, "offset")).n >= 0
  THEN ParseInt(Param(query, "offset")).n ELSE 0

Min(a, b) == IF a < b THEN a ELSE b

\* C19: the page of a listing of total items with offset o and limit l is
\* items o+1 to min(o+l, total), all items from o+1 on when no limit is
\* set; pagination.total is the count before slicing; hasMore is
\* o + l < total when a limit is set and false otherwise; an invalid or
\* out-of-range limit counts as no limit, such an offset as 0.
C19_Page ==
  (Returned("page") \/ Returned("listAll")) =>
    LET query == last.data.query
        total == Len(last.data.contents)
        o     == OffsetOf(query)
        l     == ParseInt(Param(query, "limit")).n
    IN  /\ last.res.data =
             SubSeq(last.data.contents, o + 1,
                    IF LimitSet(query) THEN Min(o + l, total) ELSE total)
        /\ last.res.pagination.total = total
        /\ last.res.pagination.hasMore = (LimitSet(query) /\ o + l < total)

\* v references id: as a scalar id, in a list of ids, or as an object
\* exposing an id
RefersToId(v, id) ==
  \/ v = JString(id)
  \/ v.t = "array" /\ \E i \in DOMAIN v.kids : v.kids[i].v = JString(id)
  \/ v.t = "object" /\ Prop(v, "id") = JString(id)

\* the tags of item, as a set
TagSet(item) == { Prop(item, "tags").kids[i].v : i \in DOMAIN Prop(item, "tags").kids }

\* the score of item for target: shared tags, plus 1 for an equal
\* category, plus 1 for each relation field that references the target
Score(item, target) ==
  Cardinality(TagSet(item) \cap TagSet(target))
    + (IF Prop(item, "category") # JUndefined
          /\ Prop(item, "category") = Prop(target, "category") THEN 1 ELSE 0)
    + Cardinality({ f \in DOMAIN RelationFields :
                      RefersToId(Prop(item, RelationFields[f]), Prop(target, "id").s) })

\* C20: getRelatedContent returns exactly the other records of the type
\* whose score is at least 1, in descending order of score.
C20_RelatedByScore ==
  (Returned("related") /\ last.data.id = RelatedTarget) =>
    LET contents == last.data.contents
        related  == { contents[i] : i \in { j \in DOMAIN contents :
                        /\ contents[j] # TargetItem
                        /\ Score(contents[j], TargetItem) >= 1 } }
        data     == last.res.data
    IN  /\ { data[i] : i \in DOMAIN data } = related
        /\ Len(data) = Cardinality(related)
        /\ \A i, j \in DOMAIN data :
             i < j => Score(data[i], TargetItem) >= Score(data[j], TargetItem)

\* the request carries the configured API key in one of the two headers
CarriesKey(req) ==
  req.authorization = "Bearer " \o ApiKey \/ req.xApiKey = ApiKey

\* C21: a POST, PUT or DELETE request under /api reaches a route handler
\* only if it carries the configured API key, whatever its path and
\* whether or not PUBLIC_GET_ENABLED is set.
C21_WritesNeedKey ==
  (Returned("request") /\ last.data.method \in {"POST", "PUT", "DELETE"}) =>
    (last.res \notin {"401", "404"} => CarriesKey(last.data))

\* the place of item in list, 0 when it is not there
PlaceOf(item, list) ==
  IF \E i \in DOMAIN list : list[i] = item
  THEN CHOOSE i \in DOMAIN list : list[i] = item
  ELSE 0

\* C22: in the result of getRelatedContent two candidates of equal total
\* score appear in the same relative order as in the listing of the type,
\* whichever reasons (tags, category, relation field) gave them their
\* score.
C22_TiesInListingOrder ==
  (Returned("related") /\ last.data.id = RelatedTarget) =>
    LET contents == last.data.contents
        data     == last.res.data
    IN  \A i, j \in DOMAIN contents :
          (/\ i < j
           /\ contents[i] # TargetItem
           /\ contents[j] # TargetItem
           /\ Score(contents[i], TargetItem) >= 1
           /\ Score(contents[i], TargetItem) = Score(contents[j], TargetItem))
            => /\ PlaceOf(contents[i], data) > 0
               /\ PlaceOf(contents[j], data) > PlaceOf(contents[i], data)

\* C24: when creating or pruning the snapshot fails during updateContent,
\* the update still returns its record and stores it, and the record is
\* the one it stores when the snapshot succeeds: the merge of data over
\* the existing record.
C24_SnapshotFailureSwallowed ==
  [][ (StepOf("update") /\ PathExists(last'.id)) =>
        /\ last'.res = "ok"
        /\ store'[last'.id] = Merged(store[last'.id], last'.data, last'.id, last'.at)
    ]_vars

\* an update has returned its record although no snapshot was written
C24_Witness ==
  /\ last.op = "update"
  /\ last.res = "ok"
  /\ store[last.id] = Merged(store[last.id], last.data, last.id, last.at)
  /\ ListVersions(versions, last.id) = {}

\* the fields updateContent sets itself
OwnFields == {"id", "status", "updatedAt", "publishedAt"}

\* C25: updateContent stores a record in which every field of data other
\* than id, status, updatedAt and publishedAt has the value of data and
\* every other such field of the existing record is retained; the stored
\* id is the original id even when data carries another one, and no
\* record of another id is created or changed.
C25_UpdateFrame ==
  [][ (StepOf("update") /\ last'.res = "ok") =>
        LET id       == last'.id
            data     == last'.data
            existing == store[id]
            updated  == store'[id]
        IN  /\ \A f \in ((DOMAIN existing) \cup (DOMAIN data) \cup (DOMAIN updated))
                          \ OwnFields :
                 Get(updated, f) = IF f \in DOMAIN data THEN data[f] ELSE Get(existing, f)
            /\ updated["id"] = id
            /\ DOMAIN store' = DOMAIN store
            /\ \A other \in (DOMAIN store) \ {id} : store'[other] = store[other]
    ]_vars

\* an update whose data carries another id and a title has been stored
C25_Witness ==
  /\ last.op = "update"
  /\ last.res = "ok"
  /\ "id" \in DOMAIN last.data
  /\ last.data["id"] # last.id
  /\ "title" \in DOMAIN last.data
  /\ store[last.id]["id"] = last.id
  /\ store[last.id]["title"] = last.data["title"]

\* C30: after any sequence of create and update calls every stored
\* record whose status is published has a publishedAt that is present
\* and not null.
C30_PublishedHasPublishedAt ==
  \A id \in DOMAIN store :
    Get(store[id], "status") = "published" =>
      (Get(store[id], "publishedAt") # Undefined /\ Get(store[id], "publishedAt") # Null)

\* request p is in updateContent
InUpdate(p) == p \in DOMAIN inflight /\ inflight[p].pc \in {"read", "snapshot", "open", "write"}

\* C23: when two updates of one record overlap, both return success, and
\* the record stored is the one computed by the update that wrote last.
C23_LastWriterWins ==
  [][ \A p \in Requests :
        (InUpdate(p) /\ p \notin DOMAIN inflight' /\ PathExists(OverlapId)) =>
          /\ last'.res = "ok"
          /\ store'[OverlapId] = inflight[p].updated
    ]_vars

\* the step is one of request p
StepBy(p) == p \notin DOMAIN inflight' \/ inflight'[p] # inflight[p]

\* C28: an update that started before a delete removed the record never
\* re-creates the record file, and once the delete has returned it leaves
\* no snapshot behind: after both the file and the version directory are
\* absent.  (A request in updateContent found the file when it started,
\* so a file that is missing now was removed by a later delete.)
C28_DeleteWins ==
  [][ \A p \in Requests :
        (InUpdate(p) /\ StepBy(p) /\ ~PathExists(OverlapId)) =>
          /\ ~(OverlapId \in DOMAIN store')
          /\ ( /\ \A q \in DOMAIN inflight : inflight[q].pc # "versions"
                /\ OverlapId \notin DOMAIN versions )
               => OverlapId \notin DOMAIN versions'
    ]_vars

\* a request is inside createContent, about to run fs.writeJson
InWrite(p) == p \in DOMAIN inflight /\ inflight[p].pc = "writeJson"

\* C26: two records of the store never hold the same value, compared
\* without regard to case, in the unique field slug
C26_UniqueValuePersistsOnce ==
  \A i, j \in DOMAIN store :
    (i # j /\ Get(store[i], "slug") \notin {Undefined, Null})
      => ~SameValue(Get(store[i], "slug"), Get(store[j], "slug"))

\* C27: a createContent call that returns its content has written a file
\* that did not exist: no create replaces a record that is stored
C27_CreateNeverOverwrites ==
  [][ \A p \in Requests :
        (InWrite(p) /\ p \notin DOMAIN inflight') => ~PathExists(inflight[p].id) ]_vars

\* C29: once no update of the record is in flight, its version directory
\* holds at most 10 snapshots
C29_OverlapKeepsTen ==
  (inflight = EmptyObj /\ OverlapId \in DOMAIN versions)
    => Cardinality(DOMAIN versions[OverlapId]) <= KeepCount

\* two updates that overlapped have finished: the two newest snapshots
\* hold the same record, stored before either of them was taken, and
\* cleanupOldVersions has removed snapshots
C29_Witness ==
  /\ inflight = EmptyObj
  /\ OverlapId \in DOMAIN versions
  /\ Cardinality(DOMAIN versions[OverlapId]) = KeepCount
  /\ \E w \in written : w[2]["versionId"] \notin DOMAIN versions[OverlapId]
  /\ \E m, n \in DOMAIN versions[OverlapId] :
       LET dir == versions[OverlapId]
       IN  /\ m # n
           /\ dir[m]["updatedAt"] = dir[n]["updatedAt"]
           /\ GetTime(dir[m]["updatedAt"]) < VersionTime(dir[m])
           /\ GetTime(dir[n]["updatedAt"]) < VersionTime(dir[n])
           /\ \A k \in (DOMAIN dir) \ {m, n} :
                VersionTime(dir[k]) < VersionTime(dir[m]) /\ VersionTime(dir[k]) < VersionTime(dir[n])

====
